---- MODULE Spec2Model ----
(***************************************************************************)
(* A model of the request-processing core of the flux gateway:             *)
(*   - the filter registry            (package ext,     StoreGlobalFilter) *)
(*   - the backend exchange/dispatch  (package backend, DoExchange)        *)
(*   - the filter chain               (package filter,  permissionFilter)  *)
(*   - the typed value resolvers      (package support, valresolve.go)     *)
(* Each subsystem has its own specification over the shared variables; the *)
(* variables of the other subsystems stay at their initial values.         *)
(***************************************************************************)
EXTENDS Integers, Sequences, FiniteSets, TLC

VARIABLES
    _globalFilter,     \* ext._globalFilter: sequence of filterWrapper
    _selectiveFilter,  \* ext._selectiveFilter: sequence of filterWrapper
    fret,              \* the last filter-registry call and what it returned
    readers,           \* reader -> the registry read it is in, and what it has read
    storing,           \* the sequence a registration has appended to and not yet sorted
    held,              \* the sequence a caller keeps from a list call, and its array
    _decoders,         \* ext: protocol id -> response decoder
    _backends,         \* ext: protocol id -> backend (invoker)
    stored,            \* the StoreBackend calls made so far, oldest first
    bret,              \* the last DoExchange / DoInvoke call and what it returned
    response,          \* ctx.Response() of that call: what the setters stored
    respLog,           \* the setters called on ctx.Response() in that call, in order
    callLog,           \* the collaborators that call reached, in order
    filters,           \* the filters configured for the route, in chain order
    request,           \* the request the chain serves (what ctx answers)
    stack,             \* the handlers running, outermost first
    trace,             \* entries and exits of handlers, in order
    nextCalls,         \* filter name -> calls of next its handler made so far
    lookups,           \* filter name -> permission lookups (permCache.GetOrLoad) made
    cret,              \* what the chain returned to the pipeline, once done
    _typedValueResolvers,  \* ext: type name -> typed value resolver
    rret,              \* the last resolve call and what it returned
    hiter,             \* the runtime's map iteration: the order a range visits the keys in
    jret               \* the last JSONBytesFromQueryString runs on one payload

fvars == <<_globalFilter, _selectiveFilter, fret, readers, storing, held>>

bvars == <<_decoders, _backends, stored, bret, response, respLog, callLog>>

cvars == <<filters, request, stack, trace, nextCalls, lookups, cret>>

rvars == <<_typedValueResolvers, rret, hiter, jret>>

vars == <<_globalFilter, _selectiveFilter, fret, readers, storing, held,
          _decoders, _backends, stored, bret, response, respLog, callLog,
          filters, request, stack, trace, nextCalls, lookups, cret,
          _typedValueResolvers, rret, hiter, jret>>

\* What the calls of one subsystem leave alone: the other subsystems' state.
notFilter == <<bvars, cvars, rvars>>

notBackend == <<fvars, cvars, rvars>>

notChain == <<fvars, bvars, rvars>>

notResolve == <<fvars, bvars, cvars>>

(***************************************************************************)
(* Bounds                                                                  *)
(***************************************************************************)
\* goroutines reading the filter registry at once
MaxReaders == 2

\* registrations (global + selective) in one run
MaxFilters == 3
\* StoreBackend calls in one run
MaxStores == 3
\* filters configured for one route
MaxChain == 3
\* calls of next one run of a filter's handler makes
MaxNextCalls == 2
\* generic type names of one argument
MaxGenerics == 2
\* type names whose resolver differs from the one init() stored
MaxReplaced == 1

\* pairs in one form payload
MaxPairs == 3
\* writes a caller makes to a sequence it was given
MaxWrites == 1

(***************************************************************************)
(* Filter registry  (src/unnamed/part_001)                                 *)
(***************************************************************************)

\* The nil interface value handed to a Store*Filter call.
NilFilter == [name |-> "nil", orderer |-> FALSE, order |-> 0, typeId |-> ""]

\* Filter instances. orderer tells whether the instance implements
\* flux.Orderer; the order field of an instance that does not is a value no
\* code may read (such an instance has no Order method).
FilterPool ==
    { [name |-> "A", orderer |-> TRUE,  order |-> -5, typeId |-> "a"],
      [name |-> "B", orderer |-> TRUE,  order |-> 0,  typeId |-> "b"],
      [name |-> "C", orderer |-> FALSE, order |-> 9,  typeId |-> "a"],
      [name |-> "D", orderer |-> TRUE,  order |-> 3,  typeId |-> ""] }

\* The filter ids a lookup is tried with.
FilterIds == {"", "a", "b", "missing-id"}

NoRet == [op |-> "none", arg |-> NilFilter, id |-> "", panic |-> FALSE,
          out |-> <<>>, found |-> FALSE, filter |-> NilFilter]

\* pkg.RequireNotNil: panics on nil, returns its argument otherwise.
RequireNotNilPanics(v) == v = NilFilter

\* pkg.RequireNotEmpty: panics on the empty string.
RequireNotEmptyPanics(str) == str = ""

\* orderOf without the check for flux.Orderer.
orderOf_ReadsOrder(v) == v.order

orderOf(v) == IF v.orderer THEN v.order ELSE 0

\* A registration that keeps one entry for an instance.
_checkedAppendFilter_Once(v, in) ==
    IF \E i \in 1..Len(in) : in[i].filter = v THEN in
    ELSE Append(in, [filter |-> v, order |-> orderOf(v)])

_checkedAppendFilter(v, in) == Append(in, [filter |-> v, order |-> orderOf(v)])

\* filterArray.Less
Less(s, i, j) == s[i].order < s[j].order

\* A registration that leaves out the sort.
sortSort_NoSort(s) == {s}

\* sort.Sort(filterArray(s)): the outcomes of a sort that is not stable, every
\* rearrangement of s in which no element is Less than one before it.
sortSort(s) ==
    { t \in { [i \in 1..Len(s) |-> s[p[i]]] : p \in Permutations(1..Len(s)) } :
        \A i, j \in 1..Len(t) : i < j => ~Less(t, j, i) }

_getFilters(in) == [i \in 1..Len(in) |-> in[i].filter]

LoadGlobalFilters == _getFilters(_globalFilter)

LoadSelectiveFilters == _getFilters(_selectiveFilter)

\* The index LoadSelectiveFilter's scan stops at, 0 when it runs off the end.
RECURSIVE ScanFrom(_, _, _)
ScanFrom(in, filterId, i) ==
    IF i > Len(in) THEN 0
    ELSE IF filterId = in[i].filter.typeId THEN i
    ELSE ScanFrom(in, filterId, i + 1)

\* A lookup that scans the global filters too.
LoadSelectiveFilter_ScansGlobal(in, filterId) ==
    LET k == ScanFrom(_globalFilter \o in, filterId, 1)
    IN  IF k = 0 THEN [filter |-> NilFilter, found |-> FALSE]
        ELSE [filter |-> (_globalFilter \o in)[k].filter, found |-> TRUE]

LoadSelectiveFilter(in, filterId) ==
    LET k == ScanFrom(in, filterId, 1)
    IN  IF k = 0 THEN [filter |-> NilFilter, found |-> FALSE]
        ELSE [filter |-> in[k].filter, found |-> TRUE]

\* A StoreGlobalFilter that appends and sorts before it validates.
StoreGlobalFilter_AppendsFirst(v) ==
    /\ Len(_globalFilter) + Len(_selectiveFilter) < MaxFilters
    /\ _globalFilter' \in sortSort(_checkedAppendFilter(v, _globalFilter))
    /\ fret' = [NoRet EXCEPT !.op = "StoreGlobalFilter", !.arg = v,
                             !.panic = RequireNotNilPanics(v)]
    /\ UNCHANGED _selectiveFilter
    /\ UNCHANGED <<readers, storing, held>>
    /\ UNCHANGED notFilter

StoreGlobalFilter(v) ==
    /\ IF RequireNotNilPanics(v)
       THEN /\ fret' = [NoRet EXCEPT !.op = "StoreGlobalFilter", !.arg = v,
                                     !.panic = TRUE]
            /\ UNCHANGED <<_globalFilter, _selectiveFilter>>
       ELSE /\ Len(_globalFilter) + Len(_selectiveFilter) < MaxFilters
            /\ _globalFilter' \in sortSort(_checkedAppendFilter(v, _globalFilter))
            /\ fret' = [NoRet EXCEPT !.op = "StoreGlobalFilter", !.arg = v]
            /\ UNCHANGED _selectiveFilter
    /\ UNCHANGED <<readers, storing, held>>
    /\ UNCHANGED notFilter

StoreSelectiveFilter(v) ==
    /\ IF RequireNotNilPanics(v)
       THEN /\ fret' = [NoRet EXCEPT !.op = "StoreSelectiveFilter", !.arg = v,
                                     !.panic = TRUE]
            /\ UNCHANGED <<_globalFilter, _selectiveFilter>>
       ELSE /\ Len(_globalFilter) + Len(_selectiveFilter) < MaxFilters
            /\ _selectiveFilter' \in
                   sortSort(_checkedAppendFilter(v, _selectiveFilter))
            /\ fret' = [NoRet EXCEPT !.op = "StoreSelectiveFilter", !.arg = v]
            /\ UNCHANGED _globalFilter
    /\ UNCHANGED <<readers, storing, held>>
    /\ UNCHANGED notFilter

CallLoadGlobalFilters ==
    /\ fret' = [NoRet EXCEPT !.op = "LoadGlobalFilters", !.out = LoadGlobalFilters]
    /\ UNCHANGED <<_globalFilter, _selectiveFilter>>
    /\ UNCHANGED <<readers, storing, held>>
    /\ UNCHANGED notFilter

CallLoadSelectiveFilters ==
    /\ fret' = [NoRet EXCEPT !.op = "LoadSelectiveFilters",
                             !.out = LoadSelectiveFilters]
    /\ UNCHANGED <<_globalFilter, _selectiveFilter>>
    /\ UNCHANGED <<readers, storing, held>>
    /\ UNCHANGED notFilter

CallLoadSelectiveFilter(filterId) ==
    /\ IF RequireNotEmptyPanics(filterId)
       THEN fret' = [NoRet EXCEPT !.op = "LoadSelectiveFilter", !.id = filterId,
                                  !.panic = TRUE]
       ELSE LET r == LoadSelectiveFilter(_selectiveFilter, filterId)
            IN  fret' = [NoRet EXCEPT !.op = "LoadSelectiveFilter",
                                      !.id = filterId, !.found = r.found,
                                      !.filter = r.filter]
    /\ UNCHANGED <<_globalFilter, _selectiveFilter>>
    /\ UNCHANGED <<readers, storing, held>>
    /\ UNCHANGED notFilter

\* No sequence kept.
NoHeld == [of |-> "none", array |-> "none", elems |-> <<>>, writes |-> 0]

\* A goroutine that is in no read of the registry.
NoRead == [pc |-> "idle", op |-> "none", id |-> "", n |-> 0, i |-> 0, out |-> <<>>,
           found |-> FALSE, filter |-> NilFilter, raced |-> FALSE]

IdleFilter ==
    /\ _globalFilter = <<>>
    /\ _selectiveFilter = <<>>
    /\ fret = NoRet
    /\ readers = [r \in 1..MaxReaders |-> NoRead]
    /\ storing = "none"
    /\ held = NoHeld

NextFilter ==
    \/ \E v \in FilterPool \cup {NilFilter} : StoreGlobalFilter(v)
    \/ \E v \in FilterPool \cup {NilFilter} : StoreSelectiveFilter(v)
    \/ CallLoadGlobalFilters
    \/ CallLoadSelectiveFilters
    \/ \E filterId \in FilterIds : CallLoadSelectiveFilter(filterId)

\* The sequence a read goes over.
ListOf(op) == IF op = "LoadGlobalFilters" THEN _globalFilter ELSE _selectiveFilter

\* The ids the concurrent lookups are made with.
ReadIds == {"a"}

\* A read of the elements from the end of the sequence.
ReadElement_FromEnd(in, i) == in[Len(in) + 1 - i]

\* for i, v := range in: the element the i-th iteration reads, when it reads it.
ReadElement(in, i) == in[i]

\* Goroutine r enters LoadGlobalFilters, LoadSelectiveFilters or
\* LoadSelectiveFilter(id): the range takes the slice, and with it its length.
BeginRead(r, op, id) ==
    /\ readers[r].pc # "reading"
    /\ (op = "LoadSelectiveFilter") = (id # "")
    /\ readers' = [readers EXCEPT ![r] =
                       [NoRead EXCEPT !.pc = "reading", !.op = op, !.id = id,
                                      !.n = Len(ListOf(op)), !.i = 1,
                                      !.raced = storing # "none"]]
    /\ UNCHANGED <<_globalFilter, _selectiveFilter, fret, storing, held>>
    /\ UNCHANGED notFilter

\* One iteration of the loop of goroutine r (_getFilters copies the filter,
\* LoadSelectiveFilter compares its TypeId and returns it), or its return
\* after the last one.
StepRead(r) ==
    LET rd == readers[r]
        v == ReadElement(ListOf(rd.op), rd.i)
    IN  /\ rd.pc = "reading"
        /\ readers' = [readers EXCEPT ![r] =
               IF rd.i > rd.n THEN [rd EXCEPT !.pc = "done"]
               ELSE IF rd.op = "LoadSelectiveFilter"
               THEN IF rd.id = v.filter.typeId
                    THEN [rd EXCEPT !.pc = "done", !.found = TRUE, !.filter = v.filter]
                    ELSE [rd EXCEPT !.i = @ + 1]
               ELSE [rd EXCEPT !.out = Append(@, v.filter), !.i = @ + 1]]
        /\ UNCHANGED <<_globalFilter, _selectiveFilter, fret, storing, held>>
        /\ UNCHANGED notFilter

\* The reads in progress, marked as overlapping a registration.
Raced == [r \in 1..MaxReaders |->
             IF readers[r].pc = "reading" THEN [readers[r] EXCEPT !.raced = TRUE]
             ELSE readers[r]]

\* The first statement of StoreGlobalFilter / StoreSelectiveFilter in a
\* goroutine of its own: the checked append.
StoreAppend(which, v) ==
    /\ storing = "none"
    /\ ~RequireNotNilPanics(v)
    /\ Len(_globalFilter) + Len(_selectiveFilter) < MaxFilters
    /\ IF which = "global"
       THEN /\ _globalFilter' = _checkedAppendFilter(v, _globalFilter)
            /\ UNCHANGED _selectiveFilter
       ELSE /\ _selectiveFilter' = _checkedAppendFilter(v, _selectiveFilter)
            /\ UNCHANGED _globalFilter
    /\ storing' = which
    /\ readers' = Raced
    /\ UNCHANGED <<fret, held>>
    /\ UNCHANGED notFilter

\* The second statement: the sort of the sequence appended to.
StoreSort ==
    /\ storing # "none"
    /\ IF storing = "global"
       THEN /\ _globalFilter' \in sortSort(_globalFilter)
            /\ UNCHANGED _selectiveFilter
       ELSE /\ _selectiveFilter' \in sortSort(_selectiveFilter)
            /\ UNCHANGED _globalFilter
    /\ storing' = "none"
    /\ readers' = Raced
    /\ UNCHANGED <<fret, held>>
    /\ UNCHANGED notFilter

\* A make that gives out the array of the sequence it is sized by; in is the
\* list call that names the sequence.
make_SharesArray(in) == in

\* make([]flux.Filter, len(in)): the array of out is a new one, shared with
\* no other slice, whatever sequence in is.
make(in) == "new"

\* The values a caller writes into a sequence it was given.
WriteValues == { NilFilter } \cup { f \in FilterPool : f.name = "D" }

\* s := LoadGlobalFilters() or s := LoadSelectiveFilters(): the list call, of
\* which the caller keeps the sequence returned.
KeepList(op) ==
    /\ fret' = [NoRet EXCEPT !.op = op, !.out = _getFilters(ListOf(op))]
    /\ held' = [of |-> op, array |-> make(op), elems |-> _getFilters(ListOf(op)),
                writes |-> 0]
    /\ UNCHANGED <<_globalFilter, _selectiveFilter, readers, storing>>
    /\ UNCHANGED notFilter

\* What the kept sequence holds now: its own elements, or those of the array
\* it shares.
Returned ==
    IF held.array = "new" THEN held.elems
    ELSE [i \in 1..Len(held.elems) |-> ListOf(held.array)[i].filter]

\* s[i] = f by the caller: a write to the array of the kept sequence.
WriteReturned(i, f) ==
    /\ held.of # "none"
    /\ i \in 1..Len(held.elems)
    /\ held.writes < MaxWrites
    /\ IF held.array = "new"
       THEN /\ held' = [held EXCEPT !.elems[i] = f, !.writes = @ + 1]
            /\ UNCHANGED <<_globalFilter, _selectiveFilter>>
       ELSE /\ held' = [held EXCEPT !.writes = @ + 1]
            /\ IF held.array = "LoadGlobalFilters"
               THEN /\ _globalFilter' = [_globalFilter EXCEPT ![i].filter = f]
                    /\ UNCHANGED _selectiveFilter
               ELSE /\ _selectiveFilter' = [_selectiveFilter EXCEPT ![i].filter = f]
                    /\ UNCHANGED _globalFilter
    /\ fret' = [NoRet EXCEPT !.op = "WriteReturned", !.arg = f]
    /\ UNCHANGED <<readers, storing>>
    /\ UNCHANGED notFilter

\* The sequences completed registrations can leave: up to n filters, sorted.
Settled(n) ==
    UNION { sortSort([i \in 1..Len(fs) |-> [filter |-> fs[i], order |-> orderOf(fs[i])]]) :
                fs \in UNION { [1..k -> FilterPool] : k \in 0..n } }

(***************************************************************************)
(* Backend exchange and dispatch  (src/unnamed/part_000)                   *)
(***************************************************************************)

\* Protocol ids of services (flux.BackendService.RpcProto).
Protos == {"http", "dubbo", "foo"}

\* A Go error value: <<>> is nil, <<msg>> an error with that message.
NilCause == <<>>

\* A nil *flux.StateError.
NilStateError ==
    [StatusCode |-> "", ErrorCode |-> "", Message |-> "<nil>", Internal |-> NilCause]

ErrBackendResponseDecoderNotFound ==
    [StatusCode |-> "StatusServerError", ErrorCode |-> "ErrorCodeGatewayInternal",
     Message |-> "BACKEND:RESPONSE_DECODER:NOT_FOUND", Internal |-> NilCause]

\* The nil raw response.
NilResp == [by |-> "<nil>", proto |-> ""]

\* flux.Backend implementations: answers tells whether Invoke returns a raw
\* response, err is the *flux.StateError it returns.
BackendPool ==
    { [name |-> "okA", answers |-> TRUE, err |-> NilStateError],
      [name |-> "okB", answers |-> TRUE, err |-> NilStateError],
      [name |-> "failC", answers |-> TRUE,
       err |-> [StatusCode |-> "StatusBadGateway", ErrorCode |-> "ErrorCodeBackend",
                Message |-> "BACKEND:INVOKE", Internal |-> <<"connection refused">>]] }

NoBackend == [name |-> "<none>", answers |-> FALSE, err |-> NilStateError]

\* backend.Invoke(service, ctx)
Invoke(backend, proto) ==
    [resp |-> IF backend.answers THEN [by |-> backend.name, proto |-> proto]
              ELSE NilResp,
     err |-> backend.err]

\* Response decoders: what a decoder returns for a raw response.
DecoderPool ==
    { [name |-> "dec200", code |-> 200, headers |-> {<<"X", "Y">>}, err |-> NilCause],
      [name |-> "dec404", code |-> 404, headers |-> {}, err |-> NilCause],
      [name |-> "decErr", code |-> 502, headers |-> {<<"E", "1">>},
       err |-> <<"malformed response">>] }

NoDecoder == [name |-> "<none>", code |-> 0, headers |-> {}, err |-> NilCause]

\* decoder(ctx, resp)
Decode(decoder, resp) ==
    [code |-> decoder.code, headers |-> decoder.headers,
     body |-> [by |-> decoder.name, of |-> resp], err |-> decoder.err]

\* ext.LoadBackendResponseDecoder
LoadBackendResponseDecoder(proto) ==
    [decoder |-> _decoders[proto], ok |-> _decoders[proto] # NoDecoder]

\* ext.LoadBackend
LoadBackend(proto) ==
    [backend |-> _backends[proto], ok |-> _backends[proto] # NoBackend]

\* The outward response before any setter ran: each field holds no value.
NoResponse == [statusCode |-> <<>>, headers |-> <<>>, body |-> <<>>]

NoBret == [op |-> "none", proto |-> "", backend |-> NoBackend,
           resp |-> NilResp, err |-> NilStateError]

\* An exchange that wraps the invoker's error.
ExchangeInvokeFailed_Wrapped(inv) ==
    [err |-> [StatusCode |-> "StatusServerError",
              ErrorCode |-> "ErrorCodeGatewayInternal",
              Message |-> "BACKEND:INVOKE", Internal |-> <<inv.err.Message>>],
     respLog |-> <<>>, response |-> NoResponse]

\* DoExchange, "if err != nil { return err }"
ExchangeInvokeFailed(inv) ==
    [err |-> inv.err, respLog |-> <<>>, response |-> NoResponse]

\* An exchange that writes an error status itself when the decoder is missing.
ExchangeDecoderNotFound_WritesStatus ==
    [err |-> ErrBackendResponseDecoderNotFound,
     respLog |-> <<"SetStatusCode">>,
     response |-> [NoResponse EXCEPT !.statusCode = <<500>>]]

\* DoExchange, "if !ok { return ErrBackendResponseDecoderNotFound }"
ExchangeDecoderNotFound ==
    [err |-> ErrBackendResponseDecoderNotFound,
     respLog |-> <<>>, response |-> NoResponse]

\* An exchange that writes the body first.
ExchangeDecoded_BodyFirst(dec) ==
    [err |-> NilStateError,
     respLog |-> <<"SetBody", "SetStatusCode", "SetHeaders">>,
     response |-> [statusCode |-> <<dec.code>>, headers |-> <<dec.headers>>,
                   body |-> <<dec.body>>]]

\* DoExchange, the branch "nil == err" of the decoder call
ExchangeDecoded(dec) ==
    [err |-> NilStateError,
     respLog |-> <<"SetStatusCode", "SetHeaders", "SetBody">>,
     response |-> [statusCode |-> <<dec.code>>, headers |-> <<dec.headers>>,
                   body |-> <<dec.body>>]]

\* An exchange that sets the status code before it looks at the decoder's error.
ExchangeDecodeFailed_SetsStatus(dec) ==
    [err |-> [StatusCode |-> "StatusServerError",
              ErrorCode |-> "ErrorCodeGatewayInternal",
              Message |-> "BACKEND:DECODE_RESPONSE", Internal |-> dec.err],
     respLog |-> <<"SetStatusCode">>,
     response |-> [NoResponse EXCEPT !.statusCode = <<dec.code>>]]

\* DoExchange, the else branch of the decoder call
ExchangeDecodeFailed(dec) ==
    [err |-> [StatusCode |-> "StatusServerError",
              ErrorCode |-> "ErrorCodeGatewayInternal",
              Message |-> "BACKEND:DECODE_RESPONSE", Internal |-> dec.err],
     respLog |-> <<>>, response |-> NoResponse]

\* A DoExchange that looks the decoder up before it invokes the backend, and
\* returns without invoking when there is none.
DoExchangeRun_LooksUpFirst(proto, exchange) ==
    LET inv    == Invoke(exchange, proto)
        loaded == LoadBackendResponseDecoder(proto)
        dec    == Decode(loaded.decoder, inv.resp)
        looked == <<[call |-> "LoadBackendResponseDecoder", who |-> proto]>>
        called == Append(looked, [call |-> "Invoke", who |-> exchange.name])
        ran    == Append(called, [call |-> "decoder", who |-> loaded.decoder.name])
    IN  IF ~loaded.ok
        THEN [out |-> ExchangeDecoderNotFound, callLog |-> looked]
        ELSE IF inv.err # NilStateError
        THEN [out |-> ExchangeInvokeFailed(inv), callLog |-> called]
        ELSE IF dec.err = NilCause
        THEN [out |-> ExchangeDecoded(dec), callLog |-> ran]
        ELSE [out |-> ExchangeDecodeFailed(dec), callLog |-> ran]

\* DoExchange(ctx, exchange), for a ctx whose endpoint's service has protocol
\* proto: what it returns, what it did to ctx.Response() and whom it called.
DoExchangeRun(proto, exchange) ==
    LET inv    == Invoke(exchange, proto)
        loaded == LoadBackendResponseDecoder(proto)
        dec    == Decode(loaded.decoder, inv.resp)
        called == <<[call |-> "Invoke", who |-> exchange.name]>>
        looked == Append(called, [call |-> "LoadBackendResponseDecoder",
                                  who |-> proto])
        ran    == Append(looked, [call |-> "decoder", who |-> loaded.decoder.name])
    IN  IF inv.err # NilStateError
        THEN [out |-> ExchangeInvokeFailed(inv), callLog |-> called]
        ELSE IF ~loaded.ok
        THEN [out |-> ExchangeDecoderNotFound, callLog |-> looked]
        ELSE IF dec.err = NilCause
        THEN [out |-> ExchangeDecoded(dec), callLog |-> ran]
        ELSE [out |-> ExchangeDecodeFailed(dec), callLog |-> ran]

DoExchange(proto, exchange) ==
    LET r == DoExchangeRun(proto, exchange)
    IN  /\ bret' = [NoBret EXCEPT !.op = "DoExchange", !.proto = proto,
                                  !.backend = exchange, !.err = r.out.err]
        /\ response' = r.out.response
        /\ respLog' = r.out.respLog
        /\ callLog' = r.callLog
        /\ UNCHANGED <<_decoders, _backends, stored>>
        /\ UNCHANGED notBackend

\* ext.StoreBackendResponseDecoder
StoreBackendResponseDecoder(proto, decoder) ==
    /\ _decoders' = [_decoders EXCEPT ![proto] = decoder]
    /\ bret' = [NoBret EXCEPT !.op = "StoreBackendResponseDecoder", !.proto = proto]
    /\ response' = NoResponse
    /\ respLog' = <<>>
    /\ callLog' = <<>>
    /\ UNCHANGED <<_backends, stored>>
    /\ UNCHANGED notBackend

\* A dispatch whose error leaves out the protocol id.
InvokeUnknownProtocol_NoProtocol(proto) ==
    [resp |-> NilResp,
     err |-> [StatusCode |-> "StatusServerError",
              ErrorCode |-> "ErrorCodeGatewayInternal",
              Message |-> "GATEWAY:UNKNOWN_PROTOCOL",
              Internal |-> <<"unknown protocol:">>],
     callLog |-> <<>>]

\* DoInvoke, "if !ok { return nil, &flux.StateError{...} }"
InvokeUnknownProtocol(proto) ==
    [resp |-> NilResp,
     err |-> [StatusCode |-> "StatusServerError",
              ErrorCode |-> "ErrorCodeGatewayInternal",
              Message |-> "GATEWAY:UNKNOWN_PROTOCOL",
              Internal |-> <<"unknown protocol:" \o proto>>],
     callLog |-> <<>>]

\* A dispatch that wraps the backend's error.
InvokeLoaded_Wrapped(backend, proto) ==
    LET inv == Invoke(backend, proto)
    IN  [resp |-> inv.resp,
         err |-> IF inv.err = NilStateError THEN NilStateError
                 ELSE [StatusCode |-> "StatusServerError",
                       ErrorCode |-> "ErrorCodeGatewayInternal",
                       Message |-> "GATEWAY:INVOKE",
                       Internal |-> <<inv.err.Message>>],
         callLog |-> <<[call |-> "Invoke", who |-> backend.name]>>]

\* DoInvoke, "return backend.Invoke(service, ctx)"
InvokeLoaded(backend, proto) ==
    LET inv == Invoke(backend, proto)
    IN  [resp |-> inv.resp, err |-> inv.err,
         callLog |-> <<[call |-> "Invoke", who |-> backend.name]>>]

\* DoInvoke(service, ctx), for a service of protocol proto.
DoInvokeRun(proto) ==
    LET loaded == LoadBackend(proto)
    IN  IF ~loaded.ok THEN InvokeUnknownProtocol(proto)
        ELSE InvokeLoaded(loaded.backend, proto)

DoInvoke(proto) ==
    LET r == DoInvokeRun(proto)
    IN  /\ bret' = [NoBret EXCEPT !.op = "DoInvoke", !.proto = proto,
                                  !.resp = r.resp, !.err = r.err]
        /\ callLog' = r.callLog
        /\ UNCHANGED <<_decoders, _backends, stored, response, respLog>>
        /\ UNCHANGED notBackend

\* ext.StoreBackend
StoreBackend(proto, backend) ==
    /\ Len(stored) < MaxStores
    /\ _backends' = [_backends EXCEPT ![proto] = backend]
    /\ stored' = Append(stored, [proto |-> proto, backend |-> backend])
    /\ bret' = [NoBret EXCEPT !.op = "StoreBackend", !.proto = proto,
                              !.backend = backend]
    /\ callLog' = <<>>
    /\ UNCHANGED <<_decoders, response, respLog>>
    /\ UNCHANGED notBackend

IdleBackend ==
    /\ _decoders = [p \in Protos |-> NoDecoder]
    /\ _backends = [p \in Protos |-> NoBackend]
    /\ stored = <<>>
    /\ bret = NoBret
    /\ response = NoResponse
    /\ respLog = <<>>
    /\ callLog = <<>>

(***************************************************************************)
(* Filter chain  (src/filter/permisstion.go and the Filter contract)       *)
(***************************************************************************)

\* A nil *flux.InvokeError.
NilInvokeError == [StatusCode |-> "", Message |-> "<nil>", Internal |-> NilCause]

ErrPermissionSubjectNotFound ==
    [StatusCode |-> "StatusBadRequest", Message |-> "PERMISSION:SUBJECT_NOT_FOUND",
     Internal |-> NilCause]

ErrPermissionSubjectAccessDenied ==
    [StatusCode |-> "StatusAccessDenied",
     Message |-> "PERMISSION:SUBJECT_ACCESS_DENIED", Internal |-> NilCause]

\* What a filter other than the permission filter returns when it does not
\* call next.
ErrFilterAborted ==
    [StatusCode |-> "StatusServerError", Message |-> "FILTER:ABORTED",
     Internal |-> NilCause]

\* What the terminal handler returns when the backend exchange fails.
ErrTerminalFailed ==
    [StatusCode |-> "StatusServerError", Message |-> "BACKEND:FAILED",
     Internal |-> NilCause]

\* Names of the filters of a chain, by position.
ChainNames == <<"A", "B", "C", "D">>

\* The filters a route can be configured with at position i: a filter whose
\* handler calls next a fixed number of times, or a permission filter, disabled
\* or not.
FiltersAt(i) ==
    { [name |-> ChainNames[i], kind |-> "generic", calls |-> n, disabled |-> FALSE] :
          n \in 0..MaxNextCalls }
    \cup
    { [name |-> ChainNames[i], kind |-> "permission", calls |-> 0, disabled |-> d] :
          d \in BOOLEAN }

Chains ==
    UNION { { c \in [1..n -> UNION { FiltersAt(i) : i \in 1..n }] :
                \A i \in 1..n : c[i] \in FiltersAt(i) } : n \in 0..MaxChain }

\* Requests: ctx.Endpoint().Authorize, whether ctx has the JWT subject
\* attribute, what the permission lookup yields, and whether the terminal
\* handler fails. The lookup varies only where verify reaches it.
Requests ==
    { r \in [Authorize : BOOLEAN, subject : BOOLEAN,
             lookup : {"true", "false", "nonbool", "error"}, tfails : BOOLEAN] :
          (~r.Authorize \/ ~r.subject) => r.lookup = "true" }

\* A verify that denies only when the lookup yields false.
verify_DeniesOnFalse(req) ==
    IF ~req.subject THEN ErrPermissionSubjectNotFound
    ELSE IF req.lookup = "error"
    THEN [StatusCode |-> "StatusServerError", Message |-> "PERMISSION:LOAD_ACCESS",
          Internal |-> <<"permission lookup failed">>]
    ELSE IF req.lookup = "false" THEN ErrPermissionSubjectAccessDenied
    ELSE NilInvokeError

\* permissionFilter.verify
verify(req) ==
    IF ~req.subject THEN ErrPermissionSubjectNotFound
    ELSE IF req.lookup = "error"
    THEN [StatusCode |-> "StatusServerError", Message |-> "PERMISSION:LOAD_ACCESS",
          Internal |-> <<"permission lookup failed">>]
    ELSE IF req.lookup = "true" THEN NilInvokeError
    ELSE ErrPermissionSubjectAccessDenied

\* The calls of p.permCache.GetOrLoad one verify makes: none without the JWT
\* subject attribute.
verifyLoads(req) == IF req.subject THEN 1 ELSE 0

\* A permission filter that wraps next even when it is disabled.
ReturnsNext_Never(f) == FALSE

\* permissionFilter.Invoke, "if p.disabled { return next }": the filter adds
\* no handler of its own to the chain.
ReturnsNext(f) == f.kind = "permission" /\ f.disabled

\* The handler permissionFilter.Invoke returns: how often it calls next and
\* what it returns when it does not (when it does, it returns what next
\* returned).
PermissionHandler(req) ==
    IF ~req.Authorize THEN [calls |-> 1, own |-> NilInvokeError, lookups |-> 0]
    ELSE IF verify(req) # NilInvokeError
    THEN [calls |-> 0, own |-> verify(req), lookups |-> verifyLoads(req)]
    ELSE [calls |-> 1, own |-> NilInvokeError, lookups |-> verifyLoads(req)]

\* The handler of a filter of the other kind.
GenericHandler(f) ==
    [calls |-> f.calls,
     own |-> IF f.calls = 0 THEN ErrFilterAborted ELSE NilInvokeError,
     lookups |-> 0]

HandlerOf(f, req) ==
    IF f.kind = "permission" THEN PermissionHandler(req) ELSE GenericHandler(f)

\* A chain construction that wraps from the first filter to the last.
RECURSIVE walk_Reversed(_)
walk_Reversed(fs) ==
    IF fs = <<>> THEN <<>>
    ELSE IF ReturnsNext(Head(fs)) THEN walk_Reversed(Tail(fs))
    ELSE Append(walk_Reversed(Tail(fs)), Head(fs))

\* The pipeline's chain construction: next = filters[i].Invoke(next), from the
\* last filter to the first, around the terminal handler. The result is the
\* sequence of the handlers that wrap the terminal handler, outermost first.
RECURSIVE walk(_)
walk(fs) ==
    IF fs = <<>> THEN <<>>
    ELSE IF ReturnsNext(Head(fs)) THEN walk(Tail(fs))
    ELSE <<Head(fs)>> \o walk(Tail(fs))

Handlers == walk(filters)

NoCret == [done |-> FALSE, err |-> NilInvokeError]

\* The terminal handler T.
Terminal(req) == IF req.tfails THEN ErrTerminalFailed ELSE NilInvokeError

\* A return value reaches the caller: the handler on top of st, or the
\* pipeline when st is empty.
Deliver(st, err) ==
    IF st = <<>> THEN [stack |-> st, cret |-> [done |-> TRUE, err |-> err]]
    ELSE [stack |-> [st EXCEPT ![Len(st)].ret = err], cret |-> cret]

\* Handler number idx of the chain is called from the handlers in st; number
\* Len(Handlers) + 1 is the terminal handler, which runs and returns at once.
Enter(st, idx) ==
    IF idx > Len(Handlers)
    THEN LET d == Deliver(st, Terminal(request))
         IN  /\ trace' = Append(trace, [ev |-> "run", who |-> "T"])
             /\ stack' = d.stack
             /\ cret' = d.cret
             /\ UNCHANGED lookups
    ELSE LET h == HandlerOf(Handlers[idx], request)
         IN  /\ trace' = Append(trace, [ev |-> "entry", who |-> Handlers[idx].name])
             /\ stack' = Append(st, [idx |-> idx, left |-> h.calls, ret |-> h.own])
             /\ lookups' = [lookups EXCEPT ![Handlers[idx].name] = @ + h.lookups]
             /\ UNCHANGED cret

\* The pipeline calls the chain for the request.
Serve ==
    /\ stack = <<>> /\ trace = <<>> /\ ~cret.done
    /\ Enter(stack, 1)
    /\ UNCHANGED <<filters, request, nextCalls>>
    /\ UNCHANGED notChain

\* The running handler calls next(ctx).
CallNext ==
    /\ stack # <<>>
    /\ stack[Len(stack)].left > 0
    /\ LET top == stack[Len(stack)]
       IN  /\ Enter([stack EXCEPT ![Len(stack)].left = top.left - 1], top.idx + 1)
           /\ nextCalls' = [nextCalls EXCEPT ![Handlers[top.idx].name] = @ + 1]
    /\ UNCHANGED <<filters, request>>
    /\ UNCHANGED notChain

\* The running handler returns.
Return ==
    /\ stack # <<>>
    /\ stack[Len(stack)].left = 0
    /\ LET top == stack[Len(stack)]
           d   == Deliver(SubSeq(stack, 1, Len(stack) - 1), top.ret)
       IN  /\ trace' = Append(trace, [ev |-> "exit", who |-> Handlers[top.idx].name])
           /\ stack' = d.stack
           /\ cret' = d.cret
    /\ UNCHANGED <<filters, request, nextCalls, lookups>>
    /\ UNCHANGED notChain

IdleChain ==
    /\ filters = <<>>
    /\ request = [Authorize |-> FALSE, subject |-> FALSE, lookup |-> "true",
                  tfails |-> FALSE]
    /\ stack = <<>>
    /\ trace = <<>>
    /\ nextCalls = [n \in {} |-> 0]
    /\ lookups = [n \in {} |-> 0]
    /\ cret = NoCret

(***************************************************************************)
(* Typed value resolution  (src/support/valresolve.go)                     *)
(***************************************************************************)

\* ext.DefaultTypedValueResolverName, the reserved name of the fallback.
DefaultTypedValueResolverName == "$default"

\* Type-class names: aliases init() stores a resolver under, and names it
\* does not.
TypeNames ==
    {"string", "map", "slice", "List", "com.foo.Bar", DefaultTypedValueResolverName}

\* The names an argument's generic types are drawn from.
GenericNames == {"string", "slice", "com.foo.Bar"}

\* The resolvers of this package, by name; "none" where a name has no entry.
Resolvers == {"stringResolver", "mapResolver", "listResolver", "defaultResolver"}

\* Values a resolver produces, tagged with their shape.
NilValue == [kind |-> "nil", val |-> <<>>]

StringValue(str) == [kind |-> "string", val |-> str]

\* []interface{}{...}
ListValue(elems) == [kind |-> "list", val |-> elems]

\* The underlying value of a MIMEValue, as it is.
RawValue(v) == [kind |-> "raw", val |-> v]

\* An io.Reader as a MIME value's underlying value: what it holds, the number
\* of characters it gives before Read fails (-1: Read never fails), whether it
\* is an io.Closer too, and whether its Close fails.
Stream(content, failAt, closer, closeFails) ==
    [kind |-> "reader",
     val |-> [content |-> content, failAt |-> failAt, closer |-> closer,
              closeFails |-> closeFails]]

\* The streams of MIMEValues: of plain text, and of JSON text.
TextStreams ==
    { Stream(<<"a", "=", "1">>, -1, TRUE, FALSE),
      Stream(<<"a", "=", "1">>, 0, FALSE, FALSE) }

JSONStreams ==
    { Stream(<<"{", "}">>, -1, FALSE, FALSE),
      Stream(<<"{", "}">>, -1, TRUE, TRUE),
      Stream(<<"{", "}">>, 1, TRUE, FALSE) }

\* MIME values: a MIME type and the underlying value, which is a Go string,
\* a []byte, a struct, a map or a stream.
MIMEValues ==
    { [MIMEType |-> "ValueMIMETypeGoText", Value |-> [kind |-> "string", val |-> <<"x">>]],
      [MIMEType |-> "text/plain", Value |-> [kind |-> "bytes", val |-> <<"r", "a", "w">>]],
      [MIMEType |-> "ValueMIMETypeGoObject",
       Value |-> [kind |-> "object", val |-> "struct"]],
      [MIMEType |-> "application/json",
       Value |-> [kind |-> "bytes",
                  val |-> <<"{", "\"", "a", "\"", ":", "\"", "1", "\"", "}">>]] }
    \cup { [MIMEType |-> "text/plain", Value |-> s] : s \in TextStreams }
    \cup { [MIMEType |-> "application/json", Value |-> s] : s \in JSONStreams }

errCastToByteTypeNotSupported == <<"cannot convert value to []byte">>

\* ioutil.ReadAll(v.(io.Reader)): Read, one character a call, until a Read
\* fails or finds the end; the data read, the error of the failed Read and
\* the calls made.
ReadAll(r) ==
    LET n == IF r.failAt < 0 THEN Len(r.content) ELSE r.failAt
    IN  [data |-> SubSeq(r.content, 1, n),
         err |-> IF r.failAt < 0 THEN NilCause ELSE <<"read failed">>,
         io |-> [i \in 1..n |-> "Read"]
                    \o <<IF r.failAt < 0 THEN "Read:EOF" ELSE "Read:error">>]

\* A _toBytes0 that leaves the stream open when the read has failed.
_toBytes0_LeaksOnError(v) ==
    CASE v.kind = "bytes"  -> [data |-> v.val, err |-> NilCause, io |-> <<>>]
      [] v.kind = "string" -> [data |-> v.val, err |-> NilCause, io |-> <<>>]
      [] v.kind = "reader" ->
             LET all == ReadAll(v.val)
             IN  IF all.err # NilCause
                 THEN [data |-> <<>>, err |-> all.err, io |-> all.io]
                 ELSE [data |-> all.data, err |-> NilCause,
                       io |-> all.io \o (IF v.val.closer THEN <<"Close">> ELSE <<>>)]
      [] OTHER -> [data |-> <<>>, err |-> errCastToByteTypeNotSupported, io |-> <<>>]

\* _toBytes0: the bytes of the value, the error, and the calls made on the
\* value when it is a stream. The error of Close is dropped.
_toBytes0(v) ==
    CASE v.kind = "bytes"  -> [data |-> v.val, err |-> NilCause, io |-> <<>>]
      [] v.kind = "string" -> [data |-> v.val, err |-> NilCause, io |-> <<>>]
      [] v.kind = "reader" ->
             LET all == ReadAll(v.val)
                 io == all.io \o (IF v.val.closer THEN <<"Close">> ELSE <<>>)
             IN  IF all.err # NilCause
                 THEN [data |-> <<>>, err |-> all.err, io |-> io]
                 ELSE [data |-> all.data, err |-> NilCause, io |-> io]
      [] OTHER -> [data |-> <<>>, err |-> errCastToByteTypeNotSupported, io |-> <<>>]

\* cast.ToStringE, for the underlying values of MIMEValues.
ToStringE(v) ==
    CASE v.kind = "bytes"  -> [str |-> v.val, err |-> NilCause]
      [] v.kind = "string" -> [str |-> v.val, err |-> NilCause]
      [] OTHER -> [str |-> <<>>, err |-> <<"unable to cast to string">>]

\* CastDecodeToString, for the MIME types of MIMEValues.
CastDecodeToString(mimeV) ==
    IF mimeV.MIMEType = "ValueMIMETypeGoText"
    THEN [val |-> StringValue(mimeV.Value.val), err |-> NilCause, io |-> <<>>]
    ELSE LET bs == _toBytes0(mimeV.Value)
         IN  IF bs.err # NilCause
             THEN IF bs.err = errCastToByteTypeNotSupported
                  THEN LET c == ToStringE(mimeV.Value)
                       IN  [val |-> IF c.err = NilCause THEN StringValue(c.str)
                                    ELSE StringValue(<<>>),
                            err |-> c.err, io |-> bs.io]
                  ELSE [val |-> StringValue(<<>>), err |-> bs.err, io |-> bs.io]
             ELSE [val |-> StringValue(bs.data), err |-> NilCause, io |-> bs.io]

(***************************************************************************)
(* Form-to-JSON transcoding  (src/support/valresolve.go)                   *)
(* A Go string or []byte is the sequence of its characters, each a         *)
(* one-character string.                                                   *)
(***************************************************************************)

\* The character U+0008, which the JSON escape \b stands for.
Backspace == "BS"

\* The keys url.ParseQuery finds in the payloads of Payloads.
KeyPool == { <<"a">>, <<"b", "\"">> }

\* The orders a range over a map with these keys can visit them in: the
\* iteration order of a Go map is not specified and differs between ranges.
HIters(keys) ==
    { s \in [1..Cardinality(keys) -> keys] :
          \A i, j \in 1..Cardinality(keys) : s[i] = s[j] => i = j }

\* for key := range m, as the runtime orders it now; hiter is an order of the
\* keys of the form the calls are made on.
RangeOrder(keys) == hiter

\* strings.Cut(s, sep) for a one-character sep: what is before and after the
\* first sep.
RECURSIVE Cut(_, _)
Cut(s, sep) ==
    IF s = <<>> THEN [before |-> <<>>, after |-> <<>>, found |-> FALSE]
    ELSE IF Head(s) = sep THEN [before |-> <<>>, after |-> Tail(s), found |-> TRUE]
    ELSE LET c == Cut(Tail(s), sep)
         IN  [c EXCEPT !.before = <<Head(s)>> \o @]

\* The byte two hexadecimal digits of a %-escape stand for, as a character.
Unhex(hi, lo) ==
    CASE <<hi, lo>> = <<"2", "2">> -> "\""
      [] <<hi, lo>> = <<"2", "b">> -> "+"
      [] <<hi, lo>> = <<"3", "1">> -> "1"
      [] <<hi, lo>> = <<"3", "2">> -> "2"

\* url.QueryUnescape: "+" is a space, "%" and two hexadecimal digits are a
\* byte, "%" before anything else is an error.
RECURSIVE QueryUnescape(_)
QueryUnescape(s) ==
    IF s = <<>> THEN [str |-> <<>>, err |-> NilCause]
    ELSE IF Head(s) = "%"
    THEN IF Len(s) < 3 \/ ~({s[2], s[3]} \subseteq {"1", "2", "3", "a", "b"})
         THEN [str |-> <<>>, err |-> <<"invalid URL escape">>]
         ELSE LET r == QueryUnescape(SubSeq(s, 4, Len(s)))
              IN  IF r.err # NilCause THEN r
                  ELSE [r EXCEPT !.str = <<Unhex(s[2], s[3])>> \o @]
    ELSE LET r == QueryUnescape(Tail(s))
         IN  IF r.err # NilCause THEN r
             ELSE [r EXCEPT !.str = <<IF Head(s) = "+" THEN " " ELSE Head(s)>> \o @]

\* url.ParseQuery: the pairs between "&", cut at the first "=", both sides
\* unescaped; the values of a key are kept in the order of the query. The
\* result is the map (keys, and the values of each) and the first error.
RECURSIVE ParseQuery(_)
ParseQuery(query) ==
    LET add(m, key, value) ==
            IF key.err # NilCause THEN [m EXCEPT !.err = key.err]
            ELSE IF value.err # NilCause THEN [m EXCEPT !.err = value.err]
            ELSE [m EXCEPT !.keys = @ \cup {key.str},
                           !.values[key.str] = <<value.str>> \o @]
        pair(seg, kv, m) ==
            IF seg.before = <<>> THEN m
            ELSE add(m, QueryUnescape(kv.before), QueryUnescape(kv.after))
        segment(seg) == pair(seg, Cut(seg.before, "="), ParseQuery(seg.after))
    IN  IF query = <<>> THEN [keys |-> {}, values |-> [k \in KeyPool |-> <<>>],
                              err |-> NilCause]
        ELSE segment(Cut(query, "&"))

\* A JSONStringValueEncode that doubles each double quote.
RECURSIVE JSONStringValueEncode_Doubles(_)
JSONStringValueEncode_Doubles(str) ==
    IF str = <<>> THEN <<>>
    ELSE (IF Head(str) = "\"" THEN <<"\"", "\"">> ELSE <<Head(str)>>)
             \o JSONStringValueEncode_Doubles(Tail(str))

\* JSONStringValueEncode: strings.Replace(*str, `"`, `\"`, -1).
RECURSIVE JSONStringValueEncode(_)
JSONStringValueEncode(str) ==
    IF str = <<>> THEN <<>>
    ELSE (IF Head(str) = "\"" THEN <<"\\", "\"">> ELSE <<Head(str)>>)
             \o JSONStringValueEncode(Tail(str))

\* strings.Join(elems, sep)
RECURSIVE Join(_, _)
Join(elems, sep) ==
    IF elems = <<>> THEN <<>>
    ELSE IF Len(elems) = 1 THEN elems[1]
    ELSE elems[1] \o sep \o Join(Tail(elems), sep)

\* JSONBytesFromQueryString: one field per key, in the order the range over
\* the parsed map visits the keys.
JSONBytesFromQueryString(queryStr) ==
    LET field(values, key) ==
            IF Len(values) > 1
            THEN <<"\"">> \o key \o <<"\"", ":", "[">>
                     \o Join([i \in 1..Len(values) |->
                                 <<"\"">> \o JSONStringValueEncode(values[i]) \o <<"\"">>],
                             <<",">>)
                     \o <<"]">>
            ELSE <<"\"">> \o key \o <<"\"", ":", "\"">>
                     \o JSONStringValueEncode(values[1]) \o <<"\"">>
        fields(queryValues, order) ==
            [i \in 1..Len(order) |-> field(queryValues.values[order[i]], order[i])]
        encode(queryValues) ==
            IF queryValues.err # NilCause
            THEN [data |-> <<>>, err |-> queryValues.err]
            ELSE [data |-> <<"{">>
                             \o Join(fields(queryValues, RangeOrder(queryValues.keys)),
                                     <<",">>)
                             \o <<"}">>,
                  err |-> NilCause]
    IN  encode(ParseQuery(queryStr))

\* A JSON string at the head of s, after its opening quote: the characters up
\* to the closing quote, with the escapes \" \\ \/ and \b decoded; any other
\* escape, and a text that ends inside the string, is an error.
RECURSIVE ScanString(_)
ScanString(s) ==
    IF s = <<>> THEN [ok |-> FALSE, str |-> <<>>, rest |-> <<>>]
    ELSE IF Head(s) = "\"" THEN [ok |-> TRUE, str |-> <<>>, rest |-> Tail(s)]
    ELSE IF Head(s) = "\\"
    THEN IF Len(s) < 2 \/ s[2] \notin {"\"", "\\", "/", "b"}
         THEN [ok |-> FALSE, str |-> <<>>, rest |-> <<>>]
         ELSE LET r == ScanString(SubSeq(s, 3, Len(s)))
              IN  [r EXCEPT !.str = <<IF s[2] = "b" THEN Backspace ELSE s[2]>> \o @]
    ELSE LET r == ScanString(Tail(s))
         IN  [r EXCEPT !.str = <<Head(s)>> \o @]

\* The elements of a JSON array of strings, after its opening bracket.
RECURSIVE ScanArray(_)
ScanArray(s) ==
    IF s = <<>> \/ Head(s) # "\"" THEN [ok |-> FALSE, elems |-> <<>>, rest |-> <<>>]
    ELSE LET e == ScanString(Tail(s))
         IN  IF ~e.ok \/ e.rest = <<>> THEN [ok |-> FALSE, elems |-> <<>>, rest |-> <<>>]
             ELSE IF Head(e.rest) = "]"
             THEN [ok |-> TRUE, elems |-> <<StringValue(e.str)>>, rest |-> Tail(e.rest)]
             ELSE IF Head(e.rest) = ","
             THEN LET r == ScanArray(Tail(e.rest))
                  IN  [r EXCEPT !.elems = <<StringValue(e.str)>> \o @]
             ELSE [ok |-> FALSE, elems |-> <<>>, rest |-> <<>>]

\* The members of a JSON object, after its opening brace or a comma: each a
\* string key, a colon and a value that is a string or an array of strings.
\* Of two members with one key the later one stays.
RECURSIVE ScanMembers(_)
ScanMembers(s) ==
    LET fail == [ok |-> FALSE, at |-> <<>>]
        string(e) == [ok |-> e.ok, val |-> StringValue(e.str), rest |-> e.rest]
        array(a) == [ok |-> a.ok, val |-> ListValue(a.elems), rest |-> a.rest]
        value(k) ==
            IF ~k.ok \/ Len(k.rest) < 2 \/ Head(k.rest) # ":" THEN [ok |-> FALSE]
            ELSE IF k.rest[2] = "\""
            THEN string(ScanString(SubSeq(k.rest, 3, Len(k.rest))))
            ELSE IF k.rest[2] = "["
            THEN array(ScanArray(SubSeq(k.rest, 3, Len(k.rest))))
            ELSE [ok |-> FALSE]
        more(k, v, r) ==
            IF ~r.ok THEN fail ELSE [ok |-> TRUE, at |-> r.at @@ (k.str :> v.val)]
        member(k, v) ==
            IF ~v.ok \/ v.rest = <<>> THEN fail
            ELSE IF v.rest = <<"}">> THEN [ok |-> TRUE, at |-> (k.str :> v.val)]
            ELSE IF Head(v.rest) = "," THEN more(k, v, ScanMembers(Tail(v.rest)))
            ELSE fail
        key(k) == member(k, value(k))
    IN  IF s = <<>> \/ Head(s) # "\"" THEN fail
        ELSE key(ScanString(Tail(s)))

\* A map[string]interface{}: the values at its keys.
HashMap(at) == [kind |-> "hashmap", val |-> at]

\* decoder.Unmarshal(data, &hashmap) of the JSON serializer, for the texts the
\* transcoding gives: a flat JSON object into the map of its members.
Unmarshal(data) ==
    LET object(r) == IF r.ok THEN [val |-> HashMap(r.at), err |-> NilCause]
                     ELSE [val |-> HashMap(<<>>), err |-> <<"invalid JSON">>]
    IN  object(IF data = <<"{", "}">> THEN [ok |-> TRUE, at |-> <<>>]
               ELSE IF data = <<>> \/ Head(data) # "{" THEN [ok |-> FALSE, at |-> <<>>]
               ELSE ScanMembers(Tail(data)))

\* _toBytes: _toBytes0 with its error wrapped.
_toBytes(v) ==
    LET wrap(bs) ==
            IF bs.err # NilCause
            THEN [bs EXCEPT !.data = <<>>,
                            !.err = <<"value: %+v, value.type:%T, error: %w">> \o bs.err]
            ELSE bs
    IN  wrap(_toBytes0(v))

\* cast.ToStringMapE, for the underlying values of MIMEValues: none is a map.
ToStringMapE(v) ==
    CASE v.kind \in {"bytes", "object", "reader"} ->
             [val |-> HashMap(<<>>), err |-> <<"unable to cast to map[string]interface{}">>]

\* The MIME types with "application/json" in them, and those with
\* "application/x-www-form-urlencoded".
JSONTypes == {"application/json"}

FormTypes == {"application/x-www-form-urlencoded"}

\* CastDecodeToStringMap, for the MIME types of MIMEValues: the map, the
\* error, and the calls made on a stream and on the runtime ("Range" when the
\* transcoding ranges over the parsed form).
CastDecodeToStringMap(mimeV) ==
    LET text(r) ==
            IF r.err # NilCause
            THEN [val |-> NilValue,
                  err |-> <<"cannot decode text to hashmap, text: %s, error:%w">>
                              \o r.err,
                  io |-> <<>>]
            ELSE [val |-> r.val, err |-> NilCause, io |-> <<>>]
        object(sm) ==
            IF sm.err # NilCause
            THEN [val |-> NilValue,
                  err |-> <<"cannot cast object to hashmap, object: %+v, object.type:%T">>,
                  io |-> <<>>]
            ELSE [val |-> sm.val, err |-> NilCause, io |-> <<>>]
        decoded(r, io) == [val |-> r.val, err |-> r.err, io |-> io]
        json(bs) ==
            IF bs.err # NilCause THEN [val |-> NilValue, err |-> bs.err, io |-> bs.io]
            ELSE decoded(Unmarshal(bs.data), bs.io)
        transcoded(bs, jbs) ==
            IF jbs.err # NilCause THEN [val |-> NilValue, err |-> jbs.err, io |-> bs.io]
            ELSE decoded(Unmarshal(jbs.data), bs.io \o <<"Range">>)
        form(bs) ==
            IF bs.err # NilCause THEN [val |-> NilValue, err |-> bs.err, io |-> bs.io]
            ELSE transcoded(bs, JSONBytesFromQueryString(bs.data))
        other(sm) ==
            IF sm.err = NilCause THEN [val |-> sm.val, err |-> NilCause, io |-> <<>>]
            ELSE [val |-> NilValue,
                  err |-> <<"unsupported mime-type to hashmap, value: %+v, value.type:%T, mime-type: %s">>,
                  io |-> <<>>]
    IN  CASE mimeV.MIMEType = "ValueMIMETypeGoText" -> text(Unmarshal(mimeV.Value.val))
          [] mimeV.MIMEType = "ValueMIMETypeGoObject" -> object(ToStringMapE(mimeV.Value))
          [] mimeV.MIMEType \in JSONTypes -> json(_toBytes(mimeV.Value))
          [] mimeV.MIMEType \in FormTypes -> form(_toBytes(mimeV.Value))
          [] OTHER -> other(ToStringMapE(mimeV.Value))

\* A default resolver that leaves the generic types out of its descriptor.
defaultResolver_DropsGeneric(typeClass, typeGeneric, value) ==
    [val |-> [kind |-> "map",
              val |-> [class |-> typeClass, generic |-> <<>>, value |-> value]],
     err |-> NilCause, io |-> <<>>]

\* defaultResolver: a map with the keys "class", "generic" and "value".
defaultResolver(typeClass, typeGeneric, value) ==
    [val |-> [kind |-> "map",
              val |-> [class |-> typeClass, generic |-> typeGeneric,
                       value |-> value]],
     err |-> NilCause, io |-> <<>>]

\* ext.LoadTypedValueResolver: the resolver stored under the name, and the one
\* stored under the reserved default name when there is none.
LoadTypedValueResolver(typeName) ==
    IF _typedValueResolvers[typeName] # "none" THEN _typedValueResolvers[typeName]
    ELSE _typedValueResolvers[DefaultTypedValueResolverName]

\* resolver(typeClass, genericTypes, mimeV) for the resolver loaded under
\* typeClass; listResolver is CastToArrayList.
RECURSIVE Resolve(_, _, _)
RECURSIVE CastToArrayList(_, _)

\* A CastToArrayList that resolves by the last generic type.
CastToArrayList_LastGeneric(genericTypes, mimeV) ==
    IF Len(genericTypes) > 0
    THEN LET typeClass == genericTypes[Len(genericTypes)]
             r == Resolve(typeClass, <<>>, mimeV)
         IN  IF r.err # NilCause
             THEN [val |-> NilValue, err |-> r.err, io |-> <<"CastToArrayList">> \o r.io]
             ELSE [val |-> ListValue(<<r.val>>), err |-> NilCause,
                   io |-> <<"CastToArrayList">> \o r.io]
    ELSE [val |-> ListValue(<<RawValue(mimeV.Value)>>), err |-> NilCause,
          io |-> <<"CastToArrayList">>]

\* A CastToArrayList that hands the generic types after the first on to the
\* resolver of the element.
CastToArrayList_PassesRest(genericTypes, mimeV) ==
    IF Len(genericTypes) > 0
    THEN LET typeClass == genericTypes[1]
             r == Resolve(typeClass, Tail(genericTypes), mimeV)
         IN  IF r.err # NilCause
             THEN [val |-> NilValue, err |-> r.err, io |-> <<"CastToArrayList">> \o r.io]
             ELSE [val |-> ListValue(<<r.val>>), err |-> NilCause,
                   io |-> <<"CastToArrayList">> \o r.io]
    ELSE [val |-> ListValue(<<RawValue(mimeV.Value)>>), err |-> NilCause,
          io |-> <<"CastToArrayList">>]

\* CastToArrayList: the list, the error, and the calls made: its own, then
\* those of the resolver of the element.
CastToArrayList(genericTypes, mimeV) ==
    IF Len(genericTypes) > 0
    THEN LET typeClass == genericTypes[1]
             r == Resolve(typeClass, <<>>, mimeV)
         IN  IF r.err # NilCause
             THEN [val |-> NilValue, err |-> r.err, io |-> <<"CastToArrayList">> \o r.io]
             ELSE [val |-> ListValue(<<r.val>>), err |-> NilCause,
                   io |-> <<"CastToArrayList">> \o r.io]
    ELSE [val |-> ListValue(<<RawValue(mimeV.Value)>>), err |-> NilCause,
          io |-> <<"CastToArrayList">>]

Resolve(typeClass, genericTypes, mimeV) ==
    LET resolver == LoadTypedValueResolver(typeClass)
    IN  CASE resolver = "stringResolver" -> CastDecodeToString(mimeV)
          [] resolver = "mapResolver" -> CastDecodeToStringMap(mimeV)
          [] resolver = "listResolver" -> CastToArrayList(genericTypes, mimeV)
          [] resolver = "defaultResolver" ->
                 defaultResolver(typeClass, genericTypes, mimeV)

\* The registry as init() leaves it.
InitResolvers ==
    [n \in TypeNames |->
        CASE n \in {"string"} -> "stringResolver"
          [] n \in {"map"} -> "mapResolver"
          [] n \in {"slice", "List"} -> "listResolver"
          [] n = DefaultTypedValueResolverName -> "defaultResolver"
          [] OTHER -> "none"]

\* Generic type lists of an argument.
GenericLists == UNION { [1..n -> GenericNames] : n \in 0..MaxGenerics }

\* The arguments of a resolve call, before it is made.
Arguments(typeClass, genericTypes, mimeV) ==
    [op |-> "none", typeClass |-> typeClass, genericTypes |-> genericTypes,
     mimeV |-> mimeV, val |-> NilValue, err |-> NilCause, io |-> <<>>]

\* ext.StoreTypedValueResolver, under a name that is not the reserved one.
StoreTypedValueResolver(typeName, resolver) ==
    /\ typeName # DefaultTypedValueResolverName
    /\ LET next == [_typedValueResolvers EXCEPT ![typeName] = resolver]
       IN  /\ Cardinality({ n \in TypeNames : next[n] # InitResolvers[n] })
                  <= MaxReplaced
           /\ _typedValueResolvers' = next
    /\ rret' = Arguments(rret.typeClass, rret.genericTypes, rret.mimeV)
    /\ UNCHANGED <<hiter, jret>>
    /\ UNCHANGED notResolve

\* resolve(typeClassName, genericTypeNames, mimeValue), on the arguments held
\* in rret. A range over a map leaves the runtime at any iteration order.
CallResolve ==
    /\ LET r == Resolve(rret.typeClass, rret.genericTypes, rret.mimeV)
       IN  /\ rret' = [rret EXCEPT !.op = "resolve", !.val = r.val, !.err = r.err,
                                   !.io = r.io]
           /\ hiter' \in IF \E i \in 1..Len(r.io) : r.io[i] = "Range"
                         THEN HIters({ hiter[i] : i \in 1..Len(hiter) })
                         ELSE {hiter}
    /\ jret' = <<>>
    /\ UNCHANGED _typedValueResolvers
    /\ UNCHANGED notResolve

\* The pairs of the form payloads, as they are on the wire.
Segments ==
    { <<"a", "=", "1">>, <<"a", "=", "2">>, <<"b", "\"", "=", "3">>,
      <<"a", "=", "%", "2", "2">>, <<"a", "=", "\\">>, <<"a", "=", "%">> }

\* application/x-www-form-urlencoded payloads: up to MaxPairs pairs, with "&"
\* between them.
Payloads ==
    { Join(pairs, <<"&">>) : pairs \in UNION { [1..n -> Segments] : n \in 0..MaxPairs } }

\* The MIME value of a form payload held in a []byte.
FormValue(payload) ==
    [MIMEType |-> "application/x-www-form-urlencoded",
     Value |-> [kind |-> "bytes", val |-> payload]]

\* JSONBytesFromQueryString on the payload rret holds: one more run on that
\* payload, of which jret keeps the last two. The range over the parsed form
\* leaves the runtime at any iteration order.
CallJSONBytesFromQueryString ==
    /\ rret.mimeV.MIMEType \in FormTypes
    /\ LET r == JSONBytesFromQueryString(rret.mimeV.Value.val)
       IN  /\ jret' = IF jret = <<>> THEN <<r>> ELSE <<jret[Len(jret)], r>>
           /\ hiter' \in IF r.err = NilCause
                         THEN HIters({ hiter[i] : i \in 1..Len(hiter) })
                         ELSE {hiter}
    /\ rret' = Arguments(rret.typeClass, rret.genericTypes, rret.mimeV)
    /\ UNCHANGED _typedValueResolvers
    /\ UNCHANGED notResolve

IdleResolve ==
    /\ _typedValueResolvers = InitResolvers
    /\ rret = Arguments("string", <<>>,
                        [MIMEType |-> "ValueMIMETypeGoText",
                         Value |-> [kind |-> "string", val |-> <<"x">>]])
    /\ hiter = <<>>
    /\ jret = <<>>

(***************************************************************************)
(* Specifications                                                          *)
(***************************************************************************)

InitFilter == IdleFilter /\ IdleBackend /\ IdleChain /\ IdleResolve

SpecFilter == InitFilter /\ [][NextFilter]_vars

InitReaders ==
    /\ _globalFilter \in Settled(MaxFilters)
    /\ _selectiveFilter \in Settled(MaxFilters - Len(_globalFilter))
    /\ fret = NoRet
    /\ readers = [r \in 1..MaxReaders |-> NoRead]
    /\ storing = "none"
    /\ held = NoHeld
    /\ IdleBackend /\ IdleChain /\ IdleResolve

NextReaders ==
    \/ \E r \in 1..MaxReaders,
          op \in {"LoadGlobalFilters", "LoadSelectiveFilters", "LoadSelectiveFilter"},
          id \in ReadIds \cup {""} : BeginRead(r, op, id)
    \/ \E r \in 1..MaxReaders : StepRead(r)

SpecReaders == InitReaders /\ [][NextReaders]_vars

InitSnapshot == IdleFilter /\ IdleBackend /\ IdleChain /\ IdleResolve

NextSnapshot ==
    \/ \E v \in FilterPool : StoreGlobalFilter(v)
    \/ \E v \in FilterPool : StoreSelectiveFilter(v)
    \/ \E op \in {"LoadGlobalFilters", "LoadSelectiveFilters"} : KeepList(op)
    \/ \E i \in 1..MaxFilters, f \in WriteValues : WriteReturned(i, f)
    \/ \E filterId \in FilterIds \ {""} : CallLoadSelectiveFilter(filterId)

SpecSnapshot == InitSnapshot /\ [][NextSnapshot]_vars

InitRace == IdleFilter /\ IdleBackend /\ IdleChain /\ IdleResolve

NextRace ==
    \/ \E which \in {"global", "selective"}, v \in FilterPool : StoreAppend(which, v)
    \/ StoreSort
    \/ \E op \in {"LoadGlobalFilters", "LoadSelectiveFilters", "LoadSelectiveFilter"},
          id \in ReadIds \cup {""} : BeginRead(1, op, id)
    \/ StepRead(1)

SpecRace == InitRace /\ [][NextRace]_vars

InitExchange == IdleFilter /\ IdleBackend /\ IdleChain /\ IdleResolve

NextExchange ==
    \/ \E proto \in Protos, decoder \in DecoderPool :
           StoreBackendResponseDecoder(proto, decoder)
    \/ \E proto \in Protos, exchange \in BackendPool : DoExchange(proto, exchange)

SpecExchange == InitExchange /\ [][NextExchange]_vars

InitDispatch == IdleFilter /\ IdleBackend /\ IdleChain /\ IdleResolve

NextDispatch ==
    \/ \E proto \in Protos, backend \in BackendPool : StoreBackend(proto, backend)
    \/ \E proto \in Protos : DoInvoke(proto)

SpecDispatch == InitDispatch /\ [][NextDispatch]_vars

InitChain ==
    /\ IdleFilter /\ IdleBackend /\ IdleResolve
    /\ filters \in Chains
    /\ request \in Requests
    /\ stack = <<>>
    /\ trace = <<>>
    /\ nextCalls = [n \in { filters[i].name : i \in 1..Len(filters) } |-> 0]
    /\ lookups = [n \in { filters[i].name : i \in 1..Len(filters) } |-> 0]
    /\ cret = NoCret

NextChain == Serve \/ CallNext \/ Return

SpecChain == InitChain /\ [][NextChain]_vars

InitResolve ==
    /\ IdleFilter /\ IdleBackend /\ IdleChain
    /\ _typedValueResolvers = InitResolvers
    /\ hiter = <<>>
    /\ jret = <<>>
    /\ rret \in { Arguments(typeClass, genericTypes, mimeV) :
                      typeClass \in TypeNames, genericTypes \in GenericLists,
                      mimeV \in MIMEValues }

NextResolve ==
    \/ \E typeName \in TypeNames, resolver \in Resolvers :
           StoreTypedValueResolver(typeName, resolver)
    \/ CallResolve

SpecResolve == InitResolve /\ [][NextResolve]_vars

InitForm ==
    /\ IdleFilter /\ IdleBackend /\ IdleChain
    /\ _typedValueResolvers = InitResolvers
    /\ rret \in { Arguments("map", <<>>, FormValue(payload)) : payload \in Payloads }
    /\ hiter \in HIters(ParseQuery(rret.mimeV.Value.val).keys)
    /\ jret = <<>>

NextForm == CallResolve \/ CallJSONBytesFromQueryString

SpecForm == InitForm /\ [][NextForm]_vars

(***************************************************************************)
(* Properties of the filter registry                                       *)
(***************************************************************************)

\* Order() of a filter as a caller of the registry reads it: the filter's own
\* order, 0 for a filter without the ordering capability.
OrderOfFilter(f) == IF f.orderer THEN f.order ELSE 0

NonDecreasing(out) ==
    \A i, j \in 1..Len(out) : i < j => OrderOfFilter(out[i]) <= OrderOfFilter(out[j])

MinusFiveBeforeZero(out) ==
    \A i, j \in 1..Len(out) :
        (OrderOfFilter(out[i]) = -5 /\ OrderOfFilter(out[j]) = 0) => i < j

\* C1: after any sequence of completed StoreGlobalFilter / StoreSelectiveFilter
\* calls, in any registration order, what LoadGlobalFilters and
\* LoadSelectiveFilters return (now, and what the last list call returned) is in
\* non-decreasing Order(); a filter of order -5 comes before one of order 0.
C1_ListsNonDecreasing ==
    /\ NonDecreasing(LoadGlobalFilters) /\ MinusFiveBeforeZero(LoadGlobalFilters)
    /\ NonDecreasing(LoadSelectiveFilters)
    /\ MinusFiveBeforeZero(LoadSelectiveFilters)
    /\ fret.op \in {"LoadGlobalFilters", "LoadSelectiveFilters"} =>
           NonDecreasing(fret.out) /\ MinusFiveBeforeZero(fret.out)

\* The order -5 filter was registered last, after filters of order 0, and is
\* listed first.
C1_Witness ==
    /\ fret.op = "StoreGlobalFilter" /\ ~fret.panic
    /\ OrderOfFilter(fret.arg) = -5
    /\ Len(_globalFilter) = 3
    /\ LoadGlobalFilters[1] = fret.arg
    /\ OrderOfFilter(LoadGlobalFilters[2]) = 0
    /\ OrderOfFilter(LoadGlobalFilters[3]) = 0

SelectiveTypeIds == { _selectiveFilter[i].filter.typeId : i \in 1..Len(_selectiveFilter) }

\* C8: LoadSelectiveFilter("") fails fast and returns nothing, also when a
\* registered filter has the empty TypeId; for a non-empty id that no
\* registered selective filter has, it returns not-found without failing; and
\* a found filter is an entry of the selective sequence whose TypeId is the id
\* (a filter registered only as global is never returned).
C8_LoadSelectiveFilter ==
    fret.op = "LoadSelectiveFilter" =>
        /\ fret.id = "" => (fret.panic /\ ~fret.found /\ fret.filter = NilFilter)
        /\ fret.id # "" => ~fret.panic
        /\ (fret.id # "" /\ fret.id \notin SelectiveTypeIds) =>
               (~fret.found /\ fret.filter = NilFilter)
        /\ fret.found =>
               /\ fret.filter.typeId = fret.id
               /\ \E i \in 1..Len(_selectiveFilter) :
                      _selectiveFilter[i].filter = fret.filter

\* A lookup that finds a selective filter while a global filter has the same
\* TypeId.
C8_Witness ==
    /\ fret.op = "LoadSelectiveFilter" /\ fret.found
    /\ fret.id = "a"
    /\ \E i \in 1..Len(_globalFilter) :
           /\ _globalFilter[i].filter.typeId = "a"
           /\ _globalFilter[i].filter # fret.filter

\* The entries of a sequence that hold the instance f.
Entries(in, f) == Cardinality({ i \in 1..Len(in) : in[i].filter = f })

\* What a completed registration of v does to the sequence it is made into.
OneMore(before, after, v) ==
    /\ Len(after) = Len(before) + 1
    /\ \A f \in FilterPool :
           Entries(after, f) = Entries(before, f) + (IF f = v THEN 1 ELSE 0)

\* C16: every successful registration adds exactly one entry, for the filter
\* registered, to the sequence it is made into and keeps every entry that was
\* there (so n registrations leave n entries, a rearrangement of the filters
\* registered, two for an instance registered twice); StoreGlobalFilter leaves
\* the selective sequence as it was and StoreSelectiveFilter the global one.
C16_RegistrationsAddUp ==
    [][ /\ (fret'.op = "StoreGlobalFilter" /\ ~fret'.panic) =>
               /\ OneMore(_globalFilter, _globalFilter', fret'.arg)
               /\ _selectiveFilter' = _selectiveFilter
        /\ (fret'.op = "StoreSelectiveFilter" /\ ~fret'.panic) =>
               /\ OneMore(_selectiveFilter, _selectiveFilter', fret'.arg)
               /\ _globalFilter' = _globalFilter ]_vars

\* An instance registered twice into the global sequence, and a selective
\* sequence that is not empty.
C16_Witness ==
    /\ fret.op = "StoreGlobalFilter" /\ ~fret.panic
    /\ Entries(_globalFilter, fret.arg) = 2
    /\ Len(_selectiveFilter) = 1

\* C17: StoreGlobalFilter(nil) and StoreSelectiveFilter(nil) panic, and leave
\* both sequences with the entries and the order they had.
C17_NilLeavesRegistry ==
    [][ (fret'.op \in {"StoreGlobalFilter", "StoreSelectiveFilter"}
            /\ fret'.arg = NilFilter) =>
           /\ fret'.panic
           /\ _globalFilter' = _globalFilter
           /\ _selectiveFilter' = _selectiveFilter ]_vars

\* A nil registration after two registrations.
C17_Witness ==
    /\ fret.op = "StoreGlobalFilter" /\ fret.arg = NilFilter /\ fret.panic
    /\ Len(_globalFilter) = 2

\* What the reads that have returned gave.
Finished(r) == readers[r].pc = "done"

ReadsSettled ==
    \A r \in 1..MaxReaders :
        Finished(r) =>
            /\ readers[r].op = "LoadGlobalFilters" =>
                   readers[r].out = LoadGlobalFilters /\ NonDecreasing(readers[r].out)
            /\ readers[r].op = "LoadSelectiveFilters" =>
                   readers[r].out = LoadSelectiveFilters /\ NonDecreasing(readers[r].out)
            /\ readers[r].op = "LoadSelectiveFilter" =>
                   LET first == { i \in 1..Len(_selectiveFilter) :
                                     /\ _selectiveFilter[i].filter.typeId = readers[r].id
                                     /\ \A j \in 1..(i - 1) :
                                            _selectiveFilter[j].filter.typeId # readers[r].id }
                   IN  /\ readers[r].found = (first # {})
                       /\ \A i \in first : readers[r].filter = _selectiveFilter[i].filter

\* C13: with the registrations completed, every read of any number of
\* goroutines, interleaved in any order, returns the sorted sequence that is
\* registered (a lookup: its first filter of that id), and no step of a read
\* changes the registry.
C13_ConcurrentReaders ==
    /\ []ReadsSettled
    /\ [][_globalFilter' = _globalFilter /\ _selectiveFilter' = _selectiveFilter]_vars

\* A read of two or more global filters has returned while another goroutine
\* is half way through the same sequence.
C13_Witness ==
    /\ Finished(1) /\ readers[1].op = "LoadGlobalFilters" /\ Len(readers[1].out) >= 2
    /\ readers[2].pc = "reading" /\ readers[2].op = "LoadGlobalFilters"
    /\ readers[2].i = 2

\* C18: a list read can return a sequence that is not in non-decreasing
\* Order(), and only a read that ran while a registration was between its
\* append and its sort, or began or ended, returns such a sequence.
C18_UnsortedOnlyWhenRaced ==
    \A r \in 1..MaxReaders :
        (Finished(r) /\ readers[r].op \in {"LoadGlobalFilters", "LoadSelectiveFilters"}
             /\ ~NonDecreasing(readers[r].out)) => readers[r].raced

\* LoadGlobalFilters has returned a sequence that is not sorted.
C18_Witness ==
    /\ Finished(1) /\ readers[1].op = "LoadGlobalFilters"
    /\ ~NonDecreasing(readers[1].out)

\* The same, for a read that began between the append and the sort, and ended
\* before the sort.
C18_WitnessBetween ==
    /\ C18_Witness
    /\ storing = "global"
    /\ readers[1].n = Len(_globalFilter)

\* The registrations.
StoreOps == {"StoreGlobalFilter", "StoreSelectiveFilter"}

\* What every lookup by an id returns.
Lookups == [id \in FilterIds \ {""} |-> LoadSelectiveFilter(_selectiveFilter, id)]

\* C23: the sequence a caller keeps from LoadGlobalFilters() or
\* LoadSelectiveFilters() holds the filters of the registry at the call, in
\* their order, and is independent of the registry from then on: a
\* registration leaves its length, elements and order as they are, and a
\* write of the caller to it changes that element of it alone and leaves the
\* registry, so what every later list and lookup call returns, as it is.
C23_ListIsSnapshot ==
    [][ /\ fret'.op \in {"LoadGlobalFilters", "LoadSelectiveFilters"} =>
               /\ Returned' = fret'.out
               /\ Returned' = [i \in 1..Len(ListOf(fret'.op)) |->
                                  ListOf(fret'.op)[i].filter]
        /\ fret'.op \in StoreOps => Returned' = Returned
        /\ fret'.op = "LoadSelectiveFilter" => Returned' = Returned
        /\ fret'.op = "WriteReturned" =>
               /\ \E i \in 1..Len(Returned) :
                      Returned' = [Returned EXCEPT ![i] = fret'.arg]
               /\ _globalFilter' = _globalFilter
               /\ _selectiveFilter' = _selectiveFilter
               /\ LoadGlobalFilters' = LoadGlobalFilters
               /\ LoadSelectiveFilters' = LoadSelectiveFilters
               /\ Lookups' = Lookups ]_vars

\* A registration made after the call has put a filter before those of the
\* kept sequence, which no write has touched.
C23_Witness ==
    /\ fret.op = "StoreGlobalFilter"
    /\ held.of = "LoadGlobalFilters" /\ held.writes = 0
    /\ Len(Returned) = 2 /\ Len(_globalFilter) = 3
    /\ Returned[1] # _globalFilter[1].filter
    /\ Returned = <<_globalFilter[2].filter, _globalFilter[3].filter>>

\* A lookup finds, after a write to the kept sequence, the filter the write
\* has taken out of it.
C23_WitnessWrite ==
    /\ fret.op = "LoadSelectiveFilter" /\ fret.found
    /\ held.of = "LoadSelectiveFilters" /\ held.writes = 1
    /\ Len(Returned) = Len(_selectiveFilter)
    /\ \A i \in 1..Len(Returned) : Returned[i] # fret.filter

(***************************************************************************)
(* Properties of the backend exchange and dispatch                         *)
(***************************************************************************)

Setters == {"SetStatusCode", "SetHeaders", "SetBody"}

\* How often a setter was called in the last call.
Calls(setter) == Cardinality({ i \in 1..Len(respLog) : respLog[i] = setter })

\* What the backend handed to the last DoExchange returned, and what the
\* decoder registered for the endpoint's protocol makes of it.
Invoked == Invoke(bret.backend, bret.proto)

Registered == _decoders[bret.proto]

Decoded == Decode(Registered, Invoked.resp)

\* C2: in every run of DoExchange the three setters are each called exactly
\* once if and only if DoExchange returns no error, and on every failing path
\* none of them is called and the outward response holds nothing.
C2_AllOrNothing ==
    bret.op = "DoExchange" =>
        /\ (bret.err = NilStateError) <=> (\A setter \in Setters : Calls(setter) = 1)
        /\ bret.err # NilStateError => (respLog = <<>> /\ response = NoResponse)

\* The decoder fails after returning a status code and headers with its error.
C2_Witness ==
    /\ bret.op = "DoExchange"
    /\ bret.err.Message = "BACKEND:DECODE_RESPONSE"
    /\ Decoded.code = 502

\* C3: when the invoker succeeds and the decoder registered for the endpoint's
\* protocol returns (statusCode, headers, body) without error, DoExchange calls
\* SetStatusCode, SetHeaders, SetBody in that order with exactly the decoder's
\* values and returns no error.
C3_WritesInOrder ==
    ( /\ bret.op = "DoExchange"
      /\ Invoked.err = NilStateError
      /\ Registered # NoDecoder
      /\ Decoded.err = NilCause ) =>
        /\ respLog = <<"SetStatusCode", "SetHeaders", "SetBody">>
        /\ response = [statusCode |-> <<Decoded.code>>,
                       headers |-> <<Decoded.headers>>,
                       body |-> <<Decoded.body>>]
        /\ bret.err = NilStateError

\* The end-to-end example: protocol "http", the decoder maps the raw response to
\* (200, X=Y, body).
C3_Witness ==
    /\ bret.op = "DoExchange" /\ bret.proto = "http"
    /\ bret.err = NilStateError
    /\ response.statusCode = <<200>>
    /\ response.headers = << {<<"X", "Y">>} >>
    /\ response.body = << [by |-> "dec200", of |-> Invoked.resp] >>
    /\ Invoked.resp # NilResp

\* C4: DoExchange with a backend whose invocation succeeds and no decoder
\* registered for the endpoint's protocol returns the one fixed
\* decoder-not-found error, which carries no cause and does not depend on the
\* protocol, and calls no setter.
C4_DecoderNotFound ==
    ( /\ bret.op = "DoExchange"
      /\ Invoked.err = NilStateError
      /\ Registered = NoDecoder ) =>
        /\ bret.err = [StatusCode |-> "StatusServerError",
                       ErrorCode |-> "ErrorCodeGatewayInternal",
                       Message |-> "BACKEND:RESPONSE_DECODER:NOT_FOUND",
                       Internal |-> NilCause]
        /\ respLog = <<>>
        /\ response = NoResponse

\* No decoder for the endpoint's protocol, while another protocol has one.
C4_Witness ==
    /\ bret.op = "DoExchange"
    /\ Invoked.err = NilStateError
    /\ Registered = NoDecoder
    /\ \E p \in Protos : _decoders[p] # NoDecoder
    /\ bret.err # NilStateError

\* C5: an error returned by DoExchange is the invoker's own error, unwrapped,
\* and then no decoder was looked up or called; or the fixed decoder-not-found
\* error; or a gateway-internal error whose cause is the error the decoder
\* returned. DoExchange never returns success after the invoker or the decoder
\* failed.
C5_ErrorProvenance ==
    bret.op = "DoExchange" =>
        /\ Invoked.err # NilStateError =>
               /\ bret.err = Invoked.err
               /\ callLog = <<[call |-> "Invoke", who |-> bret.backend.name]>>
        /\ bret.err # NilStateError =>
               \/ Invoked.err # NilStateError /\ bret.err = Invoked.err
               \/ /\ Invoked.err = NilStateError
                  /\ Registered = NoDecoder
                  /\ bret.err = ErrBackendResponseDecoderNotFound
               \/ /\ Invoked.err = NilStateError
                  /\ Registered # NoDecoder
                  /\ Decoded.err # NilCause
                  /\ bret.err.ErrorCode = "ErrorCodeGatewayInternal"
                  /\ bret.err.Internal = Decoded.err
        /\ bret.err = NilStateError =>
               /\ Invoked.err = NilStateError
               /\ Registered # NoDecoder
               /\ Decoded.err = NilCause

\* The invoker fails for a protocol that has a decoder registered.
C5_Witness ==
    /\ bret.op = "DoExchange"
    /\ bret.err # NilStateError
    /\ bret.err = Invoked.err
    /\ Registered # NoDecoder

\* The places of the calls of this kind in the call log of the last run.
CallsOf(call) == { i \in 1..Len(callLog) : callLog[i].call = call }

\* C21: every run of DoExchange invokes the supplied backend exactly once, as
\* its first call, so before any decoder lookup: when the invocation succeeds
\* and no decoder is registered for the protocol, the run that returns the
\* decoder-not-found error has made the backend call and then the lookup. The
\* decoder is called at most once, after the lookup, and only when the
\* invocation succeeded.
C21_InvokeBeforeLookup ==
    bret.op = "DoExchange" =>
        /\ CallsOf("Invoke") = {1}
        /\ callLog[1].who = bret.backend.name
        /\ Cardinality(CallsOf("LoadBackendResponseDecoder")) <= 1
        /\ Cardinality(CallsOf("decoder")) <= 1
        /\ \A i \in CallsOf("LoadBackendResponseDecoder") : i > 1
        /\ \A i \in CallsOf("decoder") :
               /\ Invoked.err = NilStateError
               /\ i - 1 \in CallsOf("LoadBackendResponseDecoder")
               /\ callLog[i].who = Registered.name
        /\ (Invoked.err = NilStateError /\ Registered = NoDecoder) =>
               /\ bret.err = ErrBackendResponseDecoderNotFound
               /\ callLog = <<[call |-> "Invoke", who |-> bret.backend.name],
                              [call |-> "LoadBackendResponseDecoder",
                               who |-> bret.proto]>>

\* The decoder-not-found error of a run whose backend call was made.
C21_Witness ==
    /\ bret.op = "DoExchange"
    /\ bret.err = ErrBackendResponseDecoderNotFound
    /\ Len(callLog) = 2
    /\ callLog[1] = [call |-> "Invoke", who |-> bret.backend.name]

\* A run that called the decoder, once, after the invocation and the lookup.
C21_WitnessDecoded ==
    /\ bret.op = "DoExchange"
    /\ CallsOf("decoder") = {3}
    /\ bret.err = NilStateError

\* C6: DoInvoke for a service whose protocol has no registered backend returns
\* a nil result and an unknown-protocol error whose cause names exactly the
\* requested protocol id, and invokes no backend.
C6_UnknownProtocol ==
    (bret.op = "DoInvoke" /\ _backends[bret.proto] = NoBackend) =>
        /\ bret.resp = NilResp
        /\ bret.err.Message = "GATEWAY:UNKNOWN_PROTOCOL"
        /\ bret.err.Internal = <<"unknown protocol:" \o bret.proto>>
        /\ callLog = <<>>

\* "foo" is dispatched while the other protocols have backends.
C6_Witness ==
    /\ bret.op = "DoInvoke" /\ bret.proto = "foo"
    /\ _backends["foo"] = NoBackend
    /\ _backends["http"] # NoBackend /\ _backends["dubbo"] # NoBackend
    /\ bret.err # NilStateError

StoredFor(proto) == { i \in 1..Len(stored) : stored[i].proto = proto }

\* The backend of the most recent StoreBackend(proto, .) call.
LastStored(proto) ==
    stored[CHOOSE i \in StoredFor(proto) : \A j \in StoredFor(proto) : j <= i].backend

\* C7: after any sequence of StoreBackend calls, DoInvoke for a service of
\* protocol p invokes exactly once the backend of the most recent
\* StoreBackend(p, .) call, whatever was stored under other protocols, and
\* returns that backend's result and error as they are.
C7_LastWriterServes ==
    (bret.op = "DoInvoke" /\ StoredFor(bret.proto) # {}) =>
        LET backend == LastStored(bret.proto)
        IN  /\ callLog = <<[call |-> "Invoke", who |-> backend.name]>>
            /\ bret.resp = Invoke(backend, bret.proto).resp
            /\ bret.err = Invoke(backend, bret.proto).err

\* A protocol stored twice, then another protocol stored, then dispatched: the
\* second backend answers with its error.
C7_Witness ==
    /\ bret.op = "DoInvoke"
    /\ Len(stored) = 3
    /\ stored[1].proto = bret.proto /\ stored[2].proto = bret.proto
    /\ stored[3].proto # bret.proto
    /\ stored[1].backend # stored[2].backend
    /\ stored[3].backend # stored[2].backend
    /\ bret.err = stored[2].backend.err /\ bret.err # NilStateError

(***************************************************************************)
(* Properties of the filter chain                                          *)
(***************************************************************************)

\* The filters of the route that put a handler into the chain: all but the
\* disabled permission filters, which hand back next itself.
Wrapping == SelectSeq(filters, LAMBDA f : ~(f.kind = "permission" /\ f.disabled))

\* The chain is [A, B]: two handlers wrap the terminal handler T.
ChainAB == Len(Wrapping) = 2

HandlerA == Wrapping[1].name

HandlerB == Wrapping[2].name

Ran(who) == \E i \in 1..Len(trace) : trace[i].who = who

\* C9: for a chain of two handlers [A, B] around the terminal handler T (a
\* disabled permission filter hands back next and so adds no handler), serving
\* one request: while A has not called next, neither B nor T has executed; and
\* when the request is served and A and B each called next exactly once, the
\* events are A-entry, B-entry, T, B-exit, A-exit, T having run once.
C9_ChainNesting ==
    ChainAB =>
        /\ nextCalls[HandlerA] = 0 => (~Ran(HandlerB) /\ ~Ran("T"))
        /\ (cret.done /\ nextCalls[HandlerA] = 1 /\ nextCalls[HandlerB] = 1) =>
               trace = << [ev |-> "entry", who |-> HandlerA],
                          [ev |-> "entry", who |-> HandlerB],
                          [ev |-> "run",   who |-> "T"],
                          [ev |-> "exit",  who |-> HandlerB],
                          [ev |-> "exit",  who |-> HandlerA] >>

\* A request served through a permission filter A that verified the subject
\* and a filter B that called next once.
C9_Witness ==
    /\ ChainAB /\ cret.done
    /\ Wrapping[1].kind = "permission" /\ request.Authorize
    /\ Wrapping[2].kind = "generic"
    /\ nextCalls[HandlerA] = 1 /\ nextCalls[HandlerB] = 1
    /\ Len(trace) = 5

\* A request that permission filter A ended without calling next.
C9_WitnessShortCircuit ==
    /\ ChainAB /\ cret.done
    /\ nextCalls[HandlerA] = 0
    /\ cret.err = ErrPermissionSubjectNotFound

\* The events of the handler of filter f so far.
Events(f, ev) == Cardinality({ i \in 1..Len(trace) : trace[i] = [ev |-> ev, who |-> f.name] })

\* The request passes the permission check: its endpoint asks for no
\* authorization, or it has a subject and the lookup yields true.
Passes == ~request.Authorize \/ (request.subject /\ request.lookup = "true")

\* What a permission filter returns for a request that does not pass.
Refusal(err) ==
    IF ~request.subject THEN err = ErrPermissionSubjectNotFound
    ELSE IF request.lookup = "error"
    THEN /\ err.StatusCode = "StatusServerError"
         /\ err.Internal = <<"permission lookup failed">>
    ELSE err = ErrPermissionSubjectAccessDenied

\* C19: a disabled permission filter puts no handler of its own before next.
\* The handler of an enabled one calls next at most once each time it runs:
\* once when the endpoint asks for no authorization or the request has the
\* JWT subject and the lookup yields true without an error, and never
\* otherwise, when it returns subject-not-found for a request without the
\* subject (and makes no lookup), a server error that wraps the cause for a
\* lookup that fails, and access-denied for a lookup that yields anything
\* but true.
C19_PermissionCallsNext ==
    \A i \in 1..Len(filters) :
        LET p == filters[i]
        IN  p.kind = "permission" =>
                IF p.disabled
                THEN Events(p, "entry") = 0 /\ nextCalls[p.name] = 0
                         /\ lookups[p.name] = 0
                ELSE /\ nextCalls[p.name] <= Events(p, "entry")
                     /\ Passes => nextCalls[p.name] >= Events(p, "exit")
                     /\ (Passes /\ cret.done) => nextCalls[p.name] = Events(p, "entry")
                     /\ ~Passes => nextCalls[p.name] = 0
                     /\ (~request.Authorize \/ ~request.subject) => lookups[p.name] = 0
                     /\ (request.Authorize /\ request.subject) =>
                            lookups[p.name] = Events(p, "entry")
                     /\ ~Passes =>
                            \A k \in 1..Len(stack) :
                                Handlers[stack[k].idx] = p =>
                                    stack[k].left = 0 /\ Refusal(stack[k].ret)
                     /\ (~Passes /\ cret.done /\ Handlers # <<>> /\ Handlers[1] = p) =>
                            Refusal(cret.err)

\* A permission filter behind a disabled one has refused a request whose
\* lookup yielded something that is no boolean.
C19_Witness ==
    /\ Len(filters) >= 2
    /\ filters[1].kind = "permission" /\ filters[1].disabled
    /\ filters[2].kind = "permission" /\ ~filters[2].disabled
    /\ request.lookup = "nonbool"
    /\ cret.done /\ cret.err = ErrPermissionSubjectAccessDenied
    /\ lookups[filters[2].name] = 1 /\ nextCalls[filters[2].name] = 0

\* A permission filter has passed a request on to next.
C19_WitnessPass ==
    /\ Len(filters) >= 1 /\ filters[1].kind = "permission" /\ ~filters[1].disabled
    /\ request.Authorize /\ cret.done /\ nextCalls[filters[1].name] = 1

\* A lookup that failed.
C19_WitnessError ==
    /\ Len(filters) >= 1 /\ filters[1].kind = "permission" /\ ~filters[1].disabled
    /\ cret.done /\ cret.err.Internal = <<"permission lookup failed">>

(***************************************************************************)
(* Properties of the typed value resolution                                *)
(***************************************************************************)

\* The descriptor of an unresolved type: its name, generic type names and
\* MIME value.
Descriptor(typeClass, genericTypes, mimeV) ==
    [kind |-> "map",
     val |-> [class |-> typeClass, generic |-> genericTypes, value |-> mimeV]]

Unregistered(typeName) == _typedValueResolvers[typeName] = "none"

\* C10: resolve on a type-class name with no resolver stored under it returns,
\* for every generic type list and MIME value, no error and the descriptor of
\* that name, the generic types and the MIME value; and when such a name is
\* the first generic type of a list, the list resolver returns no error and a
\* one-element sequence holding the descriptor of that name, the generic types
\* the element resolver is called with (none) and the MIME value.
C10_UnknownTypeNeverFails ==
    rret.op = "resolve" =>
        /\ Unregistered(rret.typeClass) =>
               /\ rret.err = NilCause
               /\ rret.val = Descriptor(rret.typeClass, rret.genericTypes, rret.mimeV)
        /\ ( /\ _typedValueResolvers[rret.typeClass] = "listResolver"
             /\ Len(rret.genericTypes) > 0
             /\ Unregistered(rret.genericTypes[1]) ) =>
               /\ rret.err = NilCause
               /\ rret.val = [kind |-> "list",
                              val |-> << Descriptor(rret.genericTypes[1], <<>>,
                                                    rret.mimeV) >>]

\* "com.foo.Bar" resolved with two generic type names on a value the string
\* resolver fails on.
C10_Witness ==
    /\ rret.op = "resolve"
    /\ rret.typeClass = "com.foo.Bar" /\ Unregistered("com.foo.Bar")
    /\ Len(rret.genericTypes) = 2
    /\ rret.mimeV.Value.kind = "object"
    /\ rret.val.kind = "map"

\* "com.foo.Bar" as the element type of a "slice".
C10_WitnessList ==
    /\ rret.op = "resolve"
    /\ rret.typeClass = "slice"
    /\ Len(rret.genericTypes) > 0 /\ rret.genericTypes[1] = "com.foo.Bar"
    /\ rret.val.kind = "list" /\ rret.val.val[1].kind = "map"

\* What the resolver of the first generic type gives on the whole MIME value.
Element == Resolve(rret.genericTypes[1], <<>>, rret.mimeV)

\* C12: a list resolution ("slice", "List") that succeeds returns a sequence
\* of exactly one element. With generic type names the element is what the
\* resolver of the first one gives on the whole MIME value, whatever names
\* follow it, and an error of that resolver is the error of the list, with no
\* sequence; with no generic type names the element is the underlying value
\* as it is.
C12_ListOfOne ==
    (rret.op = "resolve" /\ _typedValueResolvers[rret.typeClass] = "listResolver") =>
        /\ rret.err = NilCause => (rret.val.kind = "list" /\ Len(rret.val.val) = 1)
        /\ Len(rret.genericTypes) = 0 =>
               /\ rret.err = NilCause
               /\ rret.val.val[1] = RawValue(rret.mimeV.Value)
        /\ Len(rret.genericTypes) > 0 =>
               /\ rret.err = Element.err
               /\ Element.err = NilCause => rret.val.val[1] = Element.val
               /\ Element.err # NilCause => rret.val = NilValue
        /\ ( /\ Len(rret.genericTypes) > 0
             /\ rret.genericTypes[1] = "string"
             /\ _typedValueResolvers["string"] = "stringResolver"
             /\ rret.mimeV.MIMEType = "ValueMIMETypeGoText" ) =>
               rret.val = ListValue(<<StringValue(rret.mimeV.Value.val)>>)

\* "slice" with the generic types ["string", "com.foo.Bar"] on the raw text
\* "x" gives ["x"].
C12_Witness ==
    /\ rret.op = "resolve" /\ rret.typeClass = "slice"
    /\ rret.genericTypes = <<"string", "com.foo.Bar">>
    /\ rret.mimeV.MIMEType = "ValueMIMETypeGoText"
    /\ rret.val = ListValue(<<StringValue(<<"x">>)>>)

\* "List" of "string" on a struct: the error of the string resolver.
C12_WitnessError ==
    /\ rret.op = "resolve" /\ rret.typeClass = "List"
    /\ Len(rret.genericTypes) > 0 /\ rret.genericTypes[1] = "string"
    /\ rret.mimeV.Value.kind = "object"
    /\ rret.err # NilCause /\ rret.val = NilValue

\* "slice" with no generic types on a stream: the stream itself, not read.
C12_WitnessRaw ==
    /\ rret.op = "resolve" /\ rret.typeClass = "slice"
    /\ rret.genericTypes = <<>>
    /\ rret.mimeV.Value.kind = "reader"
    /\ rret.val = ListValue(<<RawValue(rret.mimeV.Value)>>)
    /\ rret.io = <<"CastToArrayList">>

\* The calls of the list resolver in the last resolve call.
ListCalls == Cardinality({ i \in 1..Len(rret.io) : rret.io[i] = "CastToArrayList" })

\* How many one-element sequences deep a value is nested.
RECURSIVE Nesting(_)
Nesting(v) ==
    IF v.kind = "list" /\ Len(v.val) = 1 THEN 1 + Nesting(v.val[1]) ELSE 0

\* The name is resolved by the list resolver.
IsList(typeName) == LoadTypedValueResolver(typeName) = "listResolver"

\* C22: a resolve call ends having called the list resolver at most twice, one
\* call inside the other, for every type-class name and every generic type
\* list, also ["slice"], ["slice", "slice"] and a list name under itself: the
\* resolver of the element is called with no generic types, so a list
\* resolver called for the element takes the underlying value as it is. The
\* result is nested at most two one-element sequences deep, and two deep
\* exactly when the type class and its first generic type are both list
\* names.
C22_ListNestingBounded ==
    rret.op = "resolve" =>
        /\ ListCalls <= 2
        /\ ListCalls = (IF ~IsList(rret.typeClass) THEN 0
                        ELSE IF rret.genericTypes # <<>> /\ IsList(rret.genericTypes[1])
                        THEN 2 ELSE 1)
        /\ rret.err = NilCause => Nesting(rret.val) = ListCalls
        /\ ListCalls = 2 =>
               /\ rret.err = NilCause
               /\ rret.val = ListValue(<<ListValue(<<RawValue(rret.mimeV.Value)>>)>>)
        /\ ( /\ IsList(rret.typeClass) /\ rret.genericTypes # <<>>
             /\ LoadTypedValueResolver(rret.genericTypes[1]) = "defaultResolver" ) =>
               rret.val.val[1].val.generic = <<>>

\* "slice" with the generic types ["slice", "slice"]: two calls, two deep.
C22_Witness ==
    /\ rret.op = "resolve" /\ rret.typeClass = "slice"
    /\ rret.genericTypes = <<"slice", "slice">>
    /\ ListCalls = 2 /\ Nesting(rret.val) = 2

\* A name that is not a list name at first, stored as one and used as the
\* element type of itself.
C22_WitnessStored ==
    /\ rret.op = "resolve" /\ rret.typeClass = "com.foo.Bar"
    /\ rret.genericTypes # <<>> /\ rret.genericTypes[1] = "com.foo.Bar"
    /\ ListCalls = 2

\* The resolve call took the bytes of a stream: a string resolution of a
\* value that is no Go text, or a map resolution of JSON or form content.
ExtractsStream ==
    /\ rret.op = "resolve" /\ rret.mimeV.Value.kind = "reader"
    /\ \/ LoadTypedValueResolver(rret.typeClass) = "stringResolver"
       \/ /\ LoadTypedValueResolver(rret.typeClass) = "mapResolver"
          /\ rret.mimeV.MIMEType \in JSONTypes \cup FormTypes

\* C20: a string or map resolution that takes the bytes of a stream reads it
\* until a Read finds its end or fails, and then, when the stream is closable,
\* closes it once, before it returns: Close is the last call on the stream
\* and the only Close, after a read that succeeded and after one that failed.
\* A failed read is the error of the resolution (wrapped, for a map); a
\* failed Close is not: the resolution of a stream read to its end gives its
\* content.
C20_StreamDrainedAndClosed ==
    ExtractsStream =>
        LET st == rret.mimeV.Value.val
            io == rret.io
            n == Len(io) - (IF st.closer THEN 1 ELSE 0)
        IN  /\ n >= 1
            /\ \A i \in 1..(n - 1) : io[i] = "Read"
            /\ io[n] = (IF st.failAt < 0 THEN "Read:EOF" ELSE "Read:error")
            /\ st.failAt < 0 => n = Len(st.content) + 1
            /\ st.closer => io[Len(io)] = "Close"
            /\ st.failAt >= 0 =>
                   /\ rret.err # NilCause
                   /\ rret.err[Len(rret.err)] = "read failed"
            /\ (st.failAt < 0
                    /\ LoadTypedValueResolver(rret.typeClass) = "stringResolver") =>
                   rret.err = NilCause /\ rret.val = StringValue(st.content)
            /\ (st.failAt < 0
                    /\ LoadTypedValueResolver(rret.typeClass) = "mapResolver") =>
                   rret.err = NilCause /\ rret.val = HashMap(<<>>)

\* A string resolution of a closable stream whose second Read fails.
C20_Witness ==
    /\ ExtractsStream /\ rret.typeClass = "string"
    /\ rret.mimeV.Value.val.failAt = 1 /\ rret.mimeV.Value.val.closer
    /\ rret.io = <<"Read", "Read:error", "Close">>
    /\ rret.err = <<"read failed">>

\* A map resolution of a stream whose Close fails.
C20_WitnessCloseFails ==
    /\ ExtractsStream /\ rret.typeClass = "map"
    /\ rret.mimeV.Value.val.closeFails
    /\ rret.io = <<"Read", "Read", "Read:EOF", "Close">>
    /\ rret.err = NilCause

(***************************************************************************)
(* Properties of the form-to-JSON transcoding and the map resolution       *)
(***************************************************************************)

\* The form payload the calls are made on, and its pairs as url.ParseQuery
\* gives them.
Payload == rret.mimeV.Value.val

Form == ParseQuery(Payload)

\* The map a form stands for: at a key with two or more values the array of
\* them in payload order, at a key with one value that value.
FormMap(form) ==
    [k \in form.keys |->
        IF Len(form.values[k]) >= 2
        THEN ListValue([i \in 1..Len(form.values[k]) |-> StringValue(form.values[k][i])])
        ELSE StringValue(form.values[k][1])]

\* C11: resolving type "map" on a well-formed URL-encoded form payload yields,
\* without an error, the map with exactly the payload's keys, in which a key
\* with two or more values maps to the array of its values in payload order
\* and a key with one value maps to that value as a string.
C11_FormPayloadToMap ==
    (rret.op = "resolve" /\ rret.typeClass = "map"
         /\ rret.mimeV.MIMEType \in FormTypes) =>
        LET form == Form
        IN  form.err = NilCause =>
                /\ rret.err = NilCause
                /\ rret.val = HashMap(FormMap(form))

\* The JSON object text of a form with its keys in this order and its values
\* escaped by Esc: a key between quotes as it is, a colon, and the value
\* between quotes, or for two or more values the array of them.
Rendered(form, order, Esc(_)) ==
    LET quoted(v) == <<"\"">> \o Esc(v) \o <<"\"">>
        field(k) ==
            <<"\"">> \o k \o <<"\"", ":">>
                \o (IF Len(form.values[k]) >= 2
                    THEN <<"[">> \o Join([i \in 1..Len(form.values[k]) |->
                                             quoted(form.values[k][i])], <<",">>)
                             \o <<"]">>
                    ELSE quoted(form.values[k][1]))
    IN  <<"{">> \o Join([i \in 1..Len(order) |-> field(order[i])], <<",">>) \o <<"}">>

\* Each double quote twice, every other character as it is.
RECURSIVE Doubled(_)
Doubled(v) ==
    IF v = <<>> THEN <<>>
    ELSE (IF Head(v) = "\"" THEN <<"\"", "\"">> ELSE <<Head(v)>>) \o Doubled(Tail(v))

\* A backslash before each double quote, every other character as it is.
RECURSIVE Backslashed(_)
Backslashed(v) ==
    IF v = <<>> THEN <<>>
    ELSE (IF Head(v) = "\"" THEN <<"\\", "\"">> ELSE <<Head(v)>>)
             \o Backslashed(Tail(v))

\* The last run of the transcoding has given a text.
Transcoded == jret # <<>> /\ jret[Len(jret)].err = NilCause

\* C14 as stated: the text the transcoding gives has each value with its
\* double quotes doubled and every other character unchanged, and its keys
\* unchanged.
C14_QuotesDoubled ==
    Transcoded =>
        LET form == Form
        IN  \E order \in HIters(form.keys) :
                jret[Len(jret)].data = Rendered(form, order, Doubled)

\* C14, amended: the text the transcoding gives has each value with a
\* backslash put before each of its double quotes and every other character,
\* backslashes included, unchanged, and its keys unchanged.
C14_QuotesBackslashed ==
    Transcoded =>
        LET form == Form
        IN  \E order \in HIters(form.keys) :
                jret[Len(jret)].data = Rendered(form, order, Backslashed)

\* A payload with a double quote in a value, a backslash in a value and a
\* double quote in a key has been transcoded.
C14_Witness ==
    /\ Transcoded
    /\ <<"b", "\"">> \in Form.keys
    /\ \E k \in Form.keys : \E i \in 1..Len(Form.values[k]) :
           Form.values[k][i] = <<"\"">>
    /\ \E k \in Form.keys : \E i \in 1..Len(Form.values[k]) :
           Form.values[k][i] = <<"\\">>

\* C15: two runs of the transcoding on one payload give the same bytes.
C15_SameBytes ==
    Len(jret) = 2 => jret[1] = jret[2]

====
